---- MODULE Spec2Model ----
(***************************************************************************)
(* A model of the datar verb library: the environment lookup of the        *)
(* ast-fallback policy, the pipe verb, the selector middlewares            *)
(* (Collection, Inverted), the Across family and the grouped verbs.        *)
(*                                                                         *)
(* Strings the code builds or transforms (verb names, environment keys,    *)
(* column names) are sequences of one-character strings, so that           *)
(* upper(), rstrip() and format() are computed and not assumed. The two    *)
(* fixed pieces of an environment key are kept as one token each.          *)
(***************************************************************************)
EXTENDS Integers, Sequences, FiniteSets, TLC

VARIABLES
    environ,      \* os.environ restricted to the DATAR_* keys: key -> value
    fb_call,      \* the last get_verb_ast_fallback call: verb and result
    reg_policy,   \* the ast_fallback each registered verb was registered with
    reg_call,     \* the last call, when of a registered verb: the policy in force
    pipe_init,    \* the data a pipe chain started from
    pipe_data,    \* the value the chain has produced so far
    pipe_log,     \* the pipe(...) calls of the chain, in order
    coll_obj,     \* a Collection object: its list of elements
    coll_leaves,  \* the atoms written in the expression that built it
    coll_depth,   \* how deep Collection(...) calls are nested in it
    inv_cols,     \* data.columns of the table an Inverted was built against
    inv,          \* the Inverted instance
    inv_log,      \* the results of the accesses of inv.complements
    acr,          \* an Across / CAcross / IfAny / IfAll descriptor
    acr_out,      \* what the last evaluate of acr returned or raised
    vb_tbl,       \* the table a chain of verbs has produced: plain or grouped
    vb_last,      \* the last verb call: its name, its input, what it raised
    vb_n          \* the number of verb calls made

envVars == <<environ, fb_call, reg_policy, reg_call>>
pipeVars == <<pipe_init, pipe_data, pipe_log>>
collVars == <<coll_obj, coll_leaves, coll_depth>>
invVars == <<inv_cols, inv, inv_log>>
acrVars == <<acr, acr_out>>
vbVars == <<vb_tbl, vb_last, vb_n>>

vars == <<envVars, pipeVars, collVars, invVars, acrVars, vbVars>>

notEnv == <<pipeVars, collVars, invVars, acrVars, vbVars>>
notPipe == <<envVars, collVars, invVars, acrVars, vbVars>>
notColl == <<envVars, pipeVars, invVars, acrVars, vbVars>>
notInv == <<envVars, pipeVars, collVars, acrVars, vbVars>>
notAcr == <<envVars, pipeVars, collVars, invVars, vbVars>>
notVb == <<envVars, pipeVars, collVars, invVars, acrVars>>

(***************************************************************************)
(* Bounds                                                                  *)
(***************************************************************************)
MaxChain == 2        \* pipe calls in one chain
MaxDepth == 2        \* nesting depth of Collection(...) calls
MaxAccess == 3       \* accesses of one Inverted's complements
MaxVerbs == 2        \* verb calls in one chain

(***************************************************************************)
(* Characters and Python's str methods                                     *)
(***************************************************************************)
LowerCs == <<"a","b","c","d","e","f","g","h","i","j","k","l","m",
             "n","o","p","q","r","s","t","u","v","w","x","y","z">>
UpperCs == <<"A","B","C","D","E","F","G","H","I","J","K","L","M",
             "N","O","P","Q","R","S","T","U","V","W","X","Y","Z">>

\* str.upper() on one character: letters are mapped, anything else is kept
UpperChar(c) ==
    IF \E i \in DOMAIN LowerCs : LowerCs[i] = c
    THEN UpperCs[CHOOSE i \in DOMAIN LowerCs : LowerCs[i] = c]
    ELSE c

\* str.upper()
upper(s) == [i \in DOMAIN s |-> UpperChar(s[i])]

\* str.rstrip(ch): every trailing occurrence of ch is removed
RECURSIVE rstrip(_, _)
rstrip(s, ch) ==
    IF s # <<>> /\ s[Len(s)] = ch
    THEN rstrip(SubSeq(s, 1, Len(s) - 1), ch)
    ELSE s

(***************************************************************************)
(* Optional strings: the result of os.environ.get and of the lookup        *)
(***************************************************************************)
None == [isNone |-> TRUE, val |-> ""]
Some(v) == [isNone |-> FALSE, val |-> v]

\* Python truthiness of a str | None
Truthy(o) == ~o.isNone /\ o.val # ""

(***************************************************************************)
(* datar.core.verb_env                                                     *)
(***************************************************************************)
\* the verb names the lookup is called with
Verbs == { <<"p","i","p","e">>,
           <<"f","i","l","t","e","r">>,
           <<"f","i","l","t","e","r","_">>,
           <<"f","i","l","t","e","r","_","_">>,
           <<"v","e","r","b">> }

\* values an environment variable is set to; "" is a set, empty variable
EnvValues == {"piping", "normal", ""}

\* a verb_name that forgets to strip the trailing underscore
verb_name_unstripped(verb) == upper(verb)

\* verb.rstrip("_").upper()
verb_name(verb) == upper(rstrip(verb, "_"))

\* f"DATAR_{verb_name}_AST_FALLBACK"
per_verb_key(verb) == <<"DATAR_">> \o verb_name(verb) \o <<"_AST_FALLBACK">>

\* "DATAR_VERB_AST_FALLBACK"
global_key == <<"DATAR_", "V", "E", "R", "B", "_AST_FALLBACK">>

EnvKeys == {per_verb_key(v) : v \in Verbs} \cup {global_key}

\* os.environ.get(key)
environ_get(key) ==
    IF key \in DOMAIN environ THEN Some(environ[key]) ELSE None

\* a per-verb-first lookup that tests the global variable first
get_verb_ast_fallback_global_first(verb) ==
    LET per_verb_value == environ_get(per_verb_key(verb))
        global_value   == environ_get(global_key)
    IN  IF Truthy(global_value) THEN global_value
        ELSE IF Truthy(per_verb_value) THEN per_verb_value
        ELSE None

get_verb_ast_fallback(verb) ==
    LET per_verb_value == environ_get(per_verb_key(verb))
        global_value   == environ_get(global_key)
    IN  IF Truthy(per_verb_value) THEN per_verb_value
        ELSE IF Truthy(global_value) THEN global_value
        ELSE None

NoCall == [verb |-> <<>>, called |-> FALSE, result |-> None]

InitEnv ==
    /\ environ = [k \in {} |-> ""]
    /\ fb_call = NoCall
    /\ reg_policy = [v \in {} |-> None]
    /\ reg_call = NoCall

\* os.environ[key] = value
SetEnv(key, value) ==
    /\ environ' = [k \in DOMAIN environ \cup {key} |->
                      IF k = key THEN value ELSE environ[k]]
    /\ fb_call' = NoCall
    /\ UNCHANGED <<reg_policy, reg_call>>
    /\ UNCHANGED notEnv

\* del os.environ[key]
DelEnv(key) ==
    /\ key \in DOMAIN environ
    /\ environ' = [k \in DOMAIN environ \ {key} |-> environ[k]]
    /\ fb_call' = NoCall
    /\ UNCHANGED <<reg_policy, reg_call>>
    /\ UNCHANGED notEnv

\* result = get_verb_ast_fallback(verb)
CallGet(verb) ==
    /\ fb_call' = [verb |-> verb, called |-> TRUE,
                   result |-> get_verb_ast_fallback(verb)]
    /\ reg_call' = NoCall
    /\ UNCHANGED <<environ, reg_policy>>
    /\ UNCHANGED notEnv

\* @register_verb(ast_fallback=get_verb_ast_fallback(verb)): the argument of
\* the decorator is evaluated when the decorator line runs, once for a verb
\* (for pipe when datar.misc is imported), and its value is what the verb is
\* registered with
Register(verb) ==
    /\ verb \notin DOMAIN reg_policy
    /\ reg_policy' = [v \in DOMAIN reg_policy \cup {verb} |->
                         IF v = verb THEN get_verb_ast_fallback(verb)
                         ELSE reg_policy[v]]
    /\ UNCHANGED <<environ, fb_call, reg_call>>
    /\ UNCHANGED notEnv

\* a policy looked up in the environment whenever it is asked for
ast_fallback_of_environ(verb) == get_verb_ast_fallback(verb)

\* the ast_fallback of a registered verb: the value it was registered with
ast_fallback(verb) == reg_policy[verb]

\* a call of a registered verb, under the policy of the verb
CallVerb(verb) ==
    /\ verb \in DOMAIN reg_policy
    /\ reg_call' = [verb |-> verb, called |-> TRUE, result |-> ast_fallback(verb)]
    /\ fb_call' = NoCall
    /\ UNCHANGED <<environ, reg_policy>>
    /\ UNCHANGED notEnv

NextEnv ==
    \/ \E k \in EnvKeys, v \in EnvValues : SetEnv(k, v)
    \/ \E k \in EnvKeys : DelEnv(k)
    \/ \E v \in Verbs : CallGet(v)
    \/ Register(<<"p","i","p","e">>)
    \/ CallVerb(<<"p","i","p","e">>)

(***************************************************************************)
(* Claims about datar.core.verb_env                                        *)
(***************************************************************************)
FilterKey == <<"DATAR_", "F", "I", "L", "T", "E", "R", "_AST_FALLBACK">>

\* the variable of verb v is the only one that differs between env and env'
OnlyVarOfChanged(v) ==
    /\ environ' # environ
    /\ \A k \in (DOMAIN environ \cup DOMAIN environ') \ {per_verb_key(v)} :
          /\ k \in DOMAIN environ
          /\ k \in DOMAIN environ'
          /\ environ'[k] = environ[k]

\* C1 as stated: the result is the per-verb variable whenever it is set, else
\* the global variable whenever it is set, else None
C1_OrderWhenSet ==
    fb_call.called =>
        fb_call.result =
            IF per_verb_key(fb_call.verb) \in DOMAIN environ
            THEN Some(environ[per_verb_key(fb_call.verb)])
            ELSE IF global_key \in DOMAIN environ
            THEN Some(environ[global_key])
            ELSE None

\* C1 as stated: changing the variable of one verb leaves the result of every
\* other verb as it was
C1_OtherVerbUntouched ==
    \A v \in Verbs, w \in Verbs :
        (v # w /\ OnlyVarOfChanged(v)) =>
            get_verb_ast_fallback(w)' = get_verb_ast_fallback(w)

\* C1 (original statement): get_verb_ast_fallback returns the per-verb
\* variable if it is set, otherwise the global variable if it is set, otherwise
\* None, and a per-verb variable set for one verb never changes the value
\* returned for another verb.
C1_Original == [](C1_OrderWhenSet) /\ [][C1_OtherVerbUntouched]_vars

C1_OrderWhenNonEmpty ==
    fb_call.called =>
        LET pk == per_verb_key(fb_call.verb)
        IN  fb_call.result =
                IF pk \in DOMAIN environ /\ environ[pk] # ""
                THEN Some(environ[pk])
                ELSE IF global_key \in DOMAIN environ /\ environ[global_key] # ""
                THEN Some(environ[global_key])
                ELSE None

C1_OtherNameUntouched ==
    \A v \in Verbs, w \in Verbs :
        ( /\ verb_name(v) # verb_name(w)
          /\ per_verb_key(v) # global_key
          /\ OnlyVarOfChanged(v) ) =>
            get_verb_ast_fallback(w)' = get_verb_ast_fallback(w)

\* C1 (amended): get_verb_ast_fallback returns the per-verb variable if it is
\* set to a non-empty value (also when the global variable holds a different
\* value), otherwise the global variable if that is set to a non-empty value,
\* otherwise None; an empty variable counts as not set. Changing the per-verb
\* variable of one verb never changes the value returned for a verb with a
\* different normalised name, unless that variable is the global variable
\* itself (the verb named "verb").
C1_Amended == [](C1_OrderWhenNonEmpty) /\ [][C1_OtherNameUntouched]_vars

\* a call that found both variables set, to different non-empty values, and
\* returned the per-verb one
C1_Witness ==
    /\ fb_call.called
    /\ per_verb_key(fb_call.verb) # global_key
    /\ per_verb_key(fb_call.verb) \in DOMAIN environ
    /\ global_key \in DOMAIN environ
    /\ environ[per_verb_key(fb_call.verb)] = "normal"
    /\ environ[global_key] = "piping"
    /\ fb_call.result = Some("normal")

\* C2: the per-verb variable is looked up under the upper-cased verb name
\* without its trailing underscore: a call for a name ending in "_" reads the
\* same variable and returns the same value as a call for the name without
\* it, and "filter_" is configured by DATAR_FILTER_AST_FALLBACK.
C2_TrailingUnderscore ==
    fb_call.called =>
        /\ \A w \in Verbs :
              fb_call.verb = w \o <<"_">> =>
                  /\ per_verb_key(fb_call.verb) = per_verb_key(w)
                  /\ fb_call.result = get_verb_ast_fallback(w)
        /\ fb_call.verb = <<"f","i","l","t","e","r","_">> =>
              /\ per_verb_key(fb_call.verb) = FilterKey
              /\ (FilterKey \in DOMAIN environ /\ environ[FilterKey] # "")
                    => fb_call.result = Some(environ[FilterKey])

\* get_verb_ast_fallback("filter_") returned the value of
\* DATAR_FILTER_AST_FALLBACK while the global variable held another value
C2_Witness ==
    /\ fb_call.called
    /\ fb_call.verb = <<"f","i","l","t","e","r","_">>
    /\ FilterKey \in DOMAIN environ
    /\ environ[FilterKey] = "normal"
    /\ global_key \in DOMAIN environ
    /\ environ[global_key] = "piping"
    /\ fb_call.result = Some("normal")


(***************************************************************************)
(* Python values and calls, for datar.misc.pipe                            *)
(***************************************************************************)
\* a Python value: a list of ints, an int, or a raised TypeError
ListVal(xs) == [v |-> xs, t |-> "list"]
IntVal(n) == [v |-> <<n>>, t |-> "int"]
TypeError == [v |-> <<>>, t |-> "TypeError"]
NoVal == [v |-> <<>>, t |-> "unset"]

\* keyword arguments are an ordered list of (name, value)
KwHas(kw, k) == \E i \in DOMAIN kw : kw[i].k = k
KwGet(kw, k) == kw[CHOOSE i \in DOMAIN kw : kw[i].k = k].v

\* the functions of the tests handed to pipe: their parameters and defaults
\*   double = lambda x: [i * 2 for i in x]
\*   sum
\*   def add_value(data, value)
\*   def transform(data, multiplier, offset=0)
PipeFuncs == {"double", "sum", "add_value", "transform"}

Params(f) ==
    CASE f = "double"    -> <<"x">>
      [] f = "sum"       -> <<"x">>
      [] f = "add_value" -> <<"data", "value">>
      [] f = "transform" -> <<"data", "multiplier", "offset">>

Defaults(f) ==
    IF f = "transform" THEN <<[v |-> IntVal(0), k |-> "offset"]>> ELSE <<>>

\* Python binds positionals left to right, then keywords by name, then
\* defaults; anything else is a TypeError
BindOk(f, pos, kw) ==
    LET ps == Params(f)
    IN  /\ Len(pos) <= Len(ps)
        /\ \A i \in DOMAIN kw :
              /\ \E j \in DOMAIN ps : ps[j] = kw[i].k /\ j > Len(pos)
              /\ \A j \in DOMAIN kw : kw[j].k = kw[i].k => j = i
        /\ \A j \in DOMAIN ps :
              j <= Len(pos) \/ KwHas(kw, ps[j]) \/ KwHas(Defaults(f), ps[j])

Arg(f, pos, kw, name) ==
    LET ps == Params(f)
        j  == CHOOSE i \in DOMAIN ps : ps[i] = name
    IN  IF j <= Len(pos) THEN pos[j]
        ELSE IF KwHas(kw, name) THEN KwGet(kw, name)
        ELSE KwGet(Defaults(f), name)

RECURSIVE SumSeq(_)
SumSeq(xs) == IF xs = <<>> THEN 0 ELSE xs[1] + SumSeq(Tail(xs))

\* func(*pos, **kw)
PyCall(f, pos, kw) ==
    IF ~BindOk(f, pos, kw) THEN TypeError
    ELSE CASE f = "double" ->
                LET x == Arg(f, pos, kw, "x")
                IN  IF x.t = "list"
                    THEN ListVal([i \in DOMAIN x.v |-> x.v[i] * 2])
                    ELSE TypeError
           [] f = "sum" ->
                LET x == Arg(f, pos, kw, "x")
                IN  IF x.t = "list" THEN IntVal(SumSeq(x.v)) ELSE TypeError
           [] f = "add_value" ->
                LET d == Arg(f, pos, kw, "data")
                    a == Arg(f, pos, kw, "value")
                IN  IF d.t = "list" /\ a.t = "int"
                    THEN ListVal([i \in DOMAIN d.v |-> d.v[i] + a.v[1]])
                    ELSE TypeError
           [] f = "transform" ->
                LET d == Arg(f, pos, kw, "data")
                    m == Arg(f, pos, kw, "multiplier")
                    o == Arg(f, pos, kw, "offset")
                IN  IF d.t = "list" /\ m.t = "int" /\ o.t = "int"
                    THEN ListVal([i \in DOMAIN d.v |-> d.v[i] * m.v[1] + o.v[1]])
                    ELSE TypeError

\* a pipe that hands the extra positionals to func before the data
pipe_args_first(data, func, args, kwargs) ==
    PyCall(func, args \o <<data>>, kwargs)

\* return func(data, *args, **kwargs)
pipe(data, func, args, kwargs) ==
    PyCall(func, <<data>> \o args, kwargs)

\* the data a chain starts from
PipeInputs ==
    { ListVal(<<1>>), ListVal(<<2, 1>>), ListVal(<<1, 2, 3>>), IntVal(5) }

\* the pipe(...) calls of the tests: func, *args, **kwargs
PipeCalls ==
    { [func |-> "double",    args |-> <<>>,          kwargs |-> <<>>],
      [func |-> "sum",       args |-> <<>>,          kwargs |-> <<>>],
      [func |-> "add_value", args |-> <<IntVal(10)>>, kwargs |-> <<>>],
      [func |-> "add_value", args |-> <<>>,
       kwargs |-> <<[v |-> IntVal(1), k |-> "value"]>>],
      [func |-> "transform", args |-> <<IntVal(2)>>,
       kwargs |-> <<[v |-> IntVal(5), k |-> "offset"]>>],
      [func |-> "transform", args |-> <<IntVal(3)>>, kwargs |-> <<>>],
      [func |-> "transform", args |-> <<IntVal(2), IntVal(1)>>, kwargs |-> <<>>],
      [func |-> "double",    args |-> <<IntVal(1)>>, kwargs |-> <<>>] }

InitPipe ==
    /\ pipe_init = NoVal
    /\ pipe_data = NoVal
    /\ pipe_log = <<>>

\* data >> ...: a chain starts from some data
PipeStart(data) ==
    /\ pipe_init' = data
    /\ pipe_data' = data
    /\ pipe_log' = <<>>
    /\ UNCHANGED notPipe

\* ... >> pipe(func, *args, **kwargs): an exception of func ends the chain
PipeStep(c) ==
    /\ pipe_init # NoVal
    /\ pipe_data # TypeError
    /\ Len(pipe_log) < MaxChain
    /\ pipe_data' = pipe(pipe_data, c.func, c.args, c.kwargs)
    /\ pipe_log' = Append(pipe_log, c)
    /\ UNCHANGED pipe_init
    /\ UNCHANGED notPipe

NextPipe ==
    \/ \E d \in PipeInputs : PipeStart(d)
    \/ \E c \in PipeCalls : PipeStep(c)

\* the functions of a chain applied one after the other, each to the result
\* of the one before it, by Python's own call rule
RECURSIVE Replay(_, _)
Replay(data, log) ==
    IF log = <<>> \/ data = TypeError THEN data
    ELSE Replay(PyCall(log[1].func, <<data>> \o log[1].args, log[1].kwargs),
                Tail(log))

\* C3: pipe(data, func, *args, **kwargs) returns func(data, *args, **kwargs),
\* the extras forwarded unchanged after data, so a chain
\* data >> pipe(f) >> pipe(g) is g(f(data)), applied left to right.
C3_PipeIsApply ==
    pipe_init # NoVal => pipe_data = Replay(pipe_init, pipe_log)

\* [1, 2, 3] >> pipe(transform, 2, offset=5) >> pipe(sum) gave 7 + 9 + 11
C3_Witness ==
    /\ pipe_init = ListVal(<<1, 2, 3>>)
    /\ Len(pipe_log) = 2
    /\ pipe_log[1].func = "transform"
    /\ pipe_log[1].args = <<IntVal(2)>>
    /\ pipe_log[1].kwargs # <<>>
    /\ pipe_log[2].func = "sum"
    /\ pipe_data = IntVal(27)

(***************************************************************************)
(* Selector atoms and Python list indexing                                 *)
(***************************************************************************)
\* a selector atom: a column name, an integer position or slice(lo, hi);
\* an absent slice end (None) is <<>>, a given one <<n>>
StrAtom(s) == [i |-> 0, s |-> s, k |-> "str", lo |-> <<>>, hi |-> <<>>]
IntAtom(i) == [i |-> i, s |-> <<>>, k |-> "int", lo |-> <<>>, hi |-> <<>>]
SliceAtom(lo, hi) == [i |-> 0, s |-> <<>>, k |-> "slice", lo |-> lo, hi |-> hi]

ColNames == { <<"a">>, <<"b">>, <<"c">> }

Min(a, b) == IF a < b THEN a ELSE b
Max(a, b) == IF a > b THEN a ELSE b
ToSet(xs) == { xs[i] : i \in DOMAIN xs }

\* seq[i] of Python: negative positions count from the end, anything outside
\* [-len, len) raises IndexError
PyIndexOk(xs, i) == -Len(xs) <= i /\ i < Len(xs)
PyIndex(xs, i) == IF i < 0 THEN xs[Len(xs) + i + 1] ELSE xs[i + 1]

\* seq[lo:hi] of Python: open ends, negative ends, clamping
PySlice(xs, lo, hi) ==
    LET n == Len(xs)
        norm(e, dflt) == IF e = <<>> THEN dflt
                         ELSE IF e[1] < 0 THEN Max(n + e[1], 0)
                         ELSE Min(e[1], n)
    IN  SubSeq(xs, norm(lo, 0) + 1, norm(hi, n))

(***************************************************************************)
(* Collection                                                              *)
(***************************************************************************)
\* an argument of Collection(...): an atom, or a Collection built before
AtomItem(a) == [coll |-> FALSE, items |-> <<a>>]
CollItem(c) == [coll |-> TRUE, items |-> c]

\* utils.expand_collections: every argument that is a collection is replaced
\* by its elements, recursively, in order
RECURSIVE expand_collections(_)
expand_collections(args) ==
    IF args = <<>> THEN <<>>
    ELSE (IF args[1].coll
          THEN expand_collections([i \in DOMAIN args[1].items |->
                                      AtomItem(args[1].items[i])])
          ELSE args[1].items)
         \o expand_collections(Tail(args))

\* a constructor that keeps its atoms and loses the nested collections
Collection_atoms_only(args) ==
    expand_collections(SelectSeq(args, LAMBDA it : ~it.coll))

\* Collection.__init__: super().__init__(expand_collections(args))
Collection(args) == expand_collections(args)

CollAtoms == { StrAtom(<<"a">>), StrAtom(<<"b">>), IntAtom(1) }

\* the atoms written around a nested collection: none or one on each side
CollSides == { <<>> } \cup { <<a>> : a \in CollAtoms }

AtomItems(atoms) == [i \in DOMAIN atoms |-> AtomItem(atoms[i])]

InitColl ==
    /\ coll_obj = <<>>
    /\ coll_leaves = <<>>
    /\ coll_depth = 0

\* Collection(a, ...): atoms only
CollNew(atoms) ==
    /\ coll_obj' = Collection(AtomItems(atoms))
    /\ coll_leaves' = atoms
    /\ coll_depth' = 0
    /\ UNCHANGED notColl

\* Collection(before..., c, after...) for the collection c built so far
CollWrap(before, after) ==
    /\ coll_depth < MaxDepth
    /\ coll_obj' = Collection(AtomItems(before) \o <<CollItem(coll_obj)>>
                              \o AtomItems(after))
    /\ coll_leaves' = before \o coll_leaves \o after
    /\ coll_depth' = coll_depth + 1
    /\ UNCHANGED notColl

NextColl ==
    \/ \E a \in CollAtoms, b \in CollSides : CollNew(<<a>> \o b)
    \/ \E b \in CollSides, a \in CollSides : CollWrap(b, a)

\* C7: a Collection built from nested Collections, at any nesting depth,
\* holds the same element sequence as the Collection built from the atoms
\* themselves, written in the same order.
C7_Flattened == coll_obj = Collection(AtomItems(coll_leaves))

\* Collection(b, Collection(Collection(a, b), 1)) holds [b, a, b, 1]
C7_Witness ==
    /\ coll_depth = 2
    /\ coll_leaves = <<StrAtom(<<"b">>), StrAtom(<<"a">>), StrAtom(<<"b">>),
                       IntAtom(1)>>
    /\ coll_obj = coll_leaves

(***************************************************************************)
(* Inverted                                                                *)
(***************************************************************************)
\* utils.sanitize_slice: a slice with integer (or absent) ends is used as it
\* is to index the column list
sanitize_slice(sl, columns) == sl

\* utils.list_diff(a, b): the elements of a that are not in b, in a's order;
\* a column name equals a name atom and never an int or a slice
list_diff(columns, elems) ==
    SelectSeq(columns, LAMBDA c : \A i \in DOMAIN elems : elems[i] # StrAtom(c))

\* the elems argument: a bare slice, a scalar, a plain list or a Collection
InvArgs ==
    { [items |-> <<a>>, form |-> "scalar"] :
        a \in {StrAtom(<<"a">>), StrAtom(<<"b">>), IntAtom(0)} }
    \cup { [items |-> <<a>>, form |-> "slice"] :
        a \in {SliceAtom(<<>>, <<1>>), SliceAtom(<<-1>>, <<>>)} }
    \cup { [items |-> l, form |-> "list"] :
        l \in { <<StrAtom(<<"a">>), StrAtom(<<"b">>)>>,
                <<IntAtom(1), StrAtom(<<"a">>)>> } }
    \cup { [items |-> Collection(AtomItems(l)), form |-> "coll"] :
        l \in { <<StrAtom(<<"a">>)>>,
                <<StrAtom(<<"a">>), StrAtom(<<"b">>)>>,
                <<IntAtom(0), StrAtom(<<"b">>)>>,
                <<IntAtom(-1)>>,
                <<IntAtom(2)>>,
                <<SliceAtom(<<>>, <<1>>)>> } }

\* Context.SELECT.value or a ContextSelectSlice
InvContexts == {"select", "select_slice"}

NoneList == [isNone |-> TRUE, val |-> <<>>]
SomeList(l) == [isNone |-> FALSE, val |-> l]

NoInverted ==
    [x |-> [items |-> <<>>, form |-> ""], elems |-> <<>>, made |-> FALSE,
     raised |-> "", context |-> "", complements |-> NoneList,
     cols0 |-> <<>>, colsAt |-> <<>>, computed |-> 0]

\* Inverted.__init__: self.elems, or the IndexError of columns[elem]
Inverted_elems(x, columns, context) ==
    IF x.form = "slice"
    THEN IF context = "select_slice"
         THEN [elems |-> x.items, ok |-> TRUE]
         ELSE LET sl == sanitize_slice(x.items[1], columns)
                  cs == PySlice(columns, sl.lo, sl.hi)
              IN  [elems |-> [i \in DOMAIN cs |-> StrAtom(cs[i])], ok |-> TRUE]
    ELSE IF x.form # "coll"
    THEN [elems |-> Collection(AtomItems(x.items)), ok |-> TRUE]
    ELSE IF context # "select_slice"
    THEN IF \E i \in DOMAIN x.items :
                x.items[i].k = "int" /\ ~PyIndexOk(columns, x.items[i].i)
         THEN [elems |-> <<>>, ok |-> FALSE]
         ELSE [elems |-> [i \in DOMAIN x.items |->
                            IF x.items[i].k = "int"
                            THEN StrAtom(PyIndex(columns, x.items[i].i))
                            ELSE x.items[i]],
               ok |-> TRUE]
    ELSE [elems |-> x.items, ok |-> TRUE]

\* a complements that tests the cache by truth value: an empty list is
\* computed again
Inverted_complements_truthy(self, columns) ==
    IF self.context = "select_slice"
    THEN [self |-> self, ret |-> [val |-> <<>>, isSelf |-> TRUE]]
    ELSE IF self.complements.isNone \/ self.complements.val = <<>>
    THEN LET d == list_diff(columns, self.elems)
         IN  [self |-> [self EXCEPT !.complements = SomeList(d),
                                     !.colsAt = columns,
                                     !.computed = @ + 1],
              ret |-> [val |-> d, isSelf |-> FALSE]]
    ELSE [self |-> self, ret |-> [val |-> self.complements.val, isSelf |-> FALSE]]

\* Inverted.complements: the instance after the access and the value returned
Inverted_complements(self, columns) ==
    IF self.context = "select_slice"
    THEN [self |-> self, ret |-> [val |-> <<>>, isSelf |-> TRUE]]
    ELSE IF self.complements.isNone
    THEN LET d == list_diff(columns, self.elems)
         IN  [self |-> [self EXCEPT !.complements = SomeList(d),
                                     !.colsAt = columns,
                                     !.computed = @ + 1],
              ret |-> [val |-> d, isSelf |-> FALSE]]
    ELSE [self |-> self, ret |-> [val |-> self.complements.val, isSelf |-> FALSE]]

InitInv ==
    /\ inv_cols = << <<"a">>, <<"b">> >>
    /\ inv = NoInverted
    /\ inv_log = <<>>

\* Inverted(x, data, context)
InvConstruct(x, context) ==
    /\ LET r == Inverted_elems(x, inv_cols, context)
       IN  inv' = IF r.ok
                  THEN [NoInverted EXCEPT !.made = TRUE, !.x = x,
                                          !.context = context,
                                          !.elems = r.elems,
                                          !.cols0 = inv_cols]
                  ELSE [NoInverted EXCEPT !.raised = "IndexError", !.x = x,
                                          !.context = context]
    /\ inv_log' = <<>>
    /\ UNCHANGED inv_cols
    /\ UNCHANGED notInv

\* inv.complements
InvAccess ==
    /\ inv.made
    /\ Len(inv_log) < MaxAccess
    /\ LET r == Inverted_complements(inv, inv_cols)
       IN  /\ inv' = r.self
           /\ inv_log' = Append(inv_log, r.ret)
    /\ UNCHANGED inv_cols
    /\ UNCHANGED notInv

\* data[c] = ...: the caller adds a column to the table
InvAddColumn(c) ==
    /\ c \notin ToSet(inv_cols)
    /\ inv_cols' = Append(inv_cols, c)
    /\ UNCHANGED <<inv, inv_log>>
    /\ UNCHANGED notInv

\* del data[c]: the caller removes a column from the table
InvDropColumn(c) ==
    /\ c \in ToSet(inv_cols)
    /\ inv_cols' = SelectSeq(inv_cols, LAMBDA d : d # c)
    /\ UNCHANGED <<inv, inv_log>>
    /\ UNCHANGED notInv

NextInv ==
    \/ \E x \in InvArgs, ctx \in InvContexts : InvConstruct(x, ctx)
    \/ InvAccess
    \/ \E c \in ColNames : InvAddColumn(c)
    \/ \E c \in ColNames : InvDropColumn(c)

\* C5: complements is computed at most once per instance, and every access
\* after the first returns what the first returned, whatever columns were
\* added to or removed from the table in between, also when the first
\* complement is empty.
C5_ComputedOnce ==
    /\ inv.computed <= 1
    /\ \A i \in DOMAIN inv_log : inv_log[i] = inv_log[1]

\* the first access gave the empty complement, the table then got a column
\* that is not among the elements, and a later access still gave the empty one
C5_Witness ==
    /\ inv.made
    /\ inv.context = "select"
    /\ Len(inv_log) >= 2
    /\ inv_log[1].val = <<>>
    /\ inv_log[Len(inv_log)].val = <<>>
    /\ inv_cols # inv.colsAt
    /\ list_diff(inv_cols, inv.elems) # <<>>

\* the columns a selector resolves to against a column list: a name is
\* itself, a position the column at it, a slice the columns it covers
ResolveAtom(a, columns) ==
    CASE a.k = "str"   -> {a.s}
      [] a.k = "int"   -> IF PyIndexOk(columns, a.i)
                          THEN {PyIndex(columns, a.i)} ELSE {}
      [] a.k = "slice" -> ToSet(PySlice(columns, a.lo, a.hi))

ResolveSet(x, columns) ==
    UNION { ResolveAtom(x.items[i], columns) : i \in DOMAIN x.items }

\* C6: for every table and every selector x (name, position, slice, plain
\* list or Collection of these), Inverted(x, table).complements is, as a set,
\* all columns of the table minus the columns x resolves to.
C6_ComplementIsDifference ==
    ( /\ inv.made
      /\ inv.context = "select"
      /\ inv_log # <<>>
      /\ inv.colsAt = inv.cols0 )
    => ToSet(inv_log[1].val) = ToSet(inv.cols0) \ ResolveSet(inv.x, inv.cols0)

(***************************************************************************)
(* Tables, values and the functions handed to across                       *)
(***************************************************************************)
\* a table: ordered column names, rows of one int per column
Column(data, name) ==
    LET j == CHOOSE i \in DOMAIN data.columns : data.columns[i] = name
    IN  [r \in DOMAIN data.rows |-> data.rows[r][j]]

\* a value inside an evaluation: a str, a column of values, one number, the
\* current-column marker, or a raised error
StrVal(s) == [s |-> s, v |-> <<>>, t |-> "str"]
SeriesVal(v) == [s |-> <<>>, v |-> v, t |-> "series"]
ScalarVal(n) == [s |-> <<>>, v |-> <<n>>, t |-> "scalar"]
CurColumn == [s |-> <<>>, v |-> <<>>, t |-> "CurColumn"]
ErrVal == [s |-> <<>>, v |-> <<>>, t |-> "error"]

\* the table {x: [1, 2], y: [3, 4]}
AcrData == [columns |-> << <<"x">>, <<"y">> >>,
            rows |-> << <<1, 3>>, <<2, 4>> >>]

\* the same table as a RowwiseDataFrame: every row its own group
AcrRowwise == [columns |-> AcrData.columns, rows |-> AcrData.rows,
               rowwise |-> TRUE]

\* the table {a: [1, -1, 2], b: [-1, -1, 2]}
IfData == [columns |-> << <<"a">>, <<"b">> >>,
           rows |-> << <<1, -1>>, <<-1, -1>>, <<2, 2>> >>]

\* isinstance(data, RowwiseDataFrame)
IsRowwise(data) == "rowwise" \in DOMAIN data

\* functions given as fns: sum, lambda x: x, str.upper; all of them plain
AcrFns == {"sum", "ident", "upper"}

\* functions that hand back what they were called with: lambda x, a: a and
\* lambda x, k: k, plain, and the first registered with pipda
AcrArgFns == {"arg1", "kwk", "reg_arg1"}

\* pipda.utils.functype
functype(fn) == IF fn = "reg_arg1" THEN "function" ELSE "plain"

\* fn(x, *args, **kwargs); gt0 is lambda v: v > 0 and gt0na the same with
\* no result (NaN) for v == 2
FnApply(fn, x, args, kwargs) ==
    IF fn \in {"gt0", "gt0na"}
    THEN IF args # <<>> \/ kwargs # <<>> \/ x.t # "scalar" THEN ErrVal
         ELSE IF fn = "gt0na" /\ x.v[1] = 2 THEN [s |-> <<>>, v |-> <<>>, t |-> "nan"]
         ELSE [s |-> <<>>, v |-> <<IF x.v[1] > 0 THEN 1 ELSE 0>>, t |-> "bool"]
    ELSE IF fn \in {"arg1", "reg_arg1"}
    THEN IF Len(args) = 1 /\ kwargs = <<>> THEN args[1] ELSE ErrVal
    ELSE IF fn = "kwk"
    THEN IF args = <<>> /\ Len(kwargs) = 1 /\ KwHas(kwargs, "k")
         THEN KwGet(kwargs, "k") ELSE ErrVal
    ELSE IF args # <<>> \/ kwargs # <<>> THEN ErrVal
    ELSE CASE fn = "sum"   -> IF x.t = "series" THEN ScalarVal(SumSeq(x.v))
                              ELSE ErrVal
           [] fn = "ident" -> x
           [] fn = "upper" -> IF x.t = "str" THEN StrVal(upper(x.s))
                              ELSE ErrVal

\* CurColumn.replace_args
replace_args(args, column) ==
    [i \in DOMAIN args |-> IF args[i] = CurColumn THEN StrVal(column)
                           ELSE args[i]]

\* CurColumn.replace_kwargs
replace_kwargs(kwargs, column) ==
    [i \in DOMAIN kwargs |->
        [v |-> IF kwargs[i].v = CurColumn THEN StrVal(column) ELSE kwargs[i].v,
         k |-> kwargs[i].k]]

(***************************************************************************)
(* str.format and the naming templates                                     *)
(***************************************************************************)
DigitCs == <<"0","1","2","3","4","5","6","7","8","9">>

\* str(i) for a one-digit i
Str(i) == <<DigitCs[i + 1]>>

\* a template is a list of pieces: literal text, or a {key} placeholder
Lit(cs) == [s |-> cs, ph |-> FALSE]
Ph(key) == [s |-> <<key>>, ph |-> TRUE]

\* name_format.format(**render_data): KeyError for a key not in render_data
RECURSIVE format(_, _)
format(template, render_data) ==
    IF template = <<>> THEN [name |-> <<>>, ok |-> TRUE]
    ELSE LET p    == template[1]
             rest == format(Tail(template), render_data)
         IN  IF ~rest.ok THEN rest
             ELSE IF ~p.ph THEN [name |-> p.s \o rest.name, ok |-> TRUE]
             ELSE IF ~KwHas(render_data, p.s[1])
             THEN [name |-> <<>>, ok |-> FALSE]
             ELSE [name |-> KwGet(render_data, p.s[1]) \o rest.name, ok |-> TRUE]

(***************************************************************************)
(* Across.__init__                                                         *)
(***************************************************************************)
\* dplyr.funcs.everything(data)
everything(data) == [i \in DOMAIN data.columns |-> StrAtom(data.columns[i])]

\* utils.select_columns: names stay, positions become the column at them
select_columns(all_columns, cols) ==
    [i \in DOMAIN cols |->
        IF cols[i].k = "int" THEN PyIndex(all_columns, cols[i].i)
        ELSE cols[i].s]

\* the list form of fns as plyrda numbers it: '_fn' counts from 1
fns_list_from_one(fns) ==
    CASE fns.form = "callable" -> <<[fn |-> fns.fs[1].fn, render |-> <<>>]>>
      [] fns.form = "list" ->
            [i \in DOMAIN fns.fs |->
                [fn |-> fns.fs[i].fn,
                 render |-> <<[v |-> Str(i), k |-> "_fn"],
                              [v |-> Str(i - 1), k |-> "_fn0"]>>]]
      [] fns.form = "dict" ->
            [i \in DOMAIN fns.fs |->
                [fn |-> fns.fs[i].fn,
                 render |-> <<[v |-> fns.fs[i].key, k |-> "_fn"]>>]]
      [] OTHER -> <<>>

\* fns_list: a callable, a list or tuple (numbered from 0), or a dict
fns_list(fns) ==
    CASE fns.form = "callable" -> <<[fn |-> fns.fs[1].fn, render |-> <<>>]>>
      [] fns.form = "list" ->
            [i \in DOMAIN fns.fs |->
                [fn |-> fns.fs[i].fn,
                 render |-> <<[v |-> Str(i - 1), k |-> "_fn"],
                              [v |-> Str(i), k |-> "_fn1"]>>]]
      [] fns.form = "dict" ->
            [i \in DOMAIN fns.fs |->
                [fn |-> fns.fs[i].fn,
                 render |-> <<[v |-> fns.fs[i].key, k |-> "_fn"]>>]]
      [] OTHER -> <<>>

NoAcross ==
    [data |-> <<>>, args |-> <<>>, kwargs |-> <<>>, made |-> FALSE,
     raised |-> "", cols |-> <<>>, fns |-> <<>>, cls |-> "",
     given |-> [form |-> "", fs |-> <<>>], names |-> <<>>]

\* Across.__init__(data, cols, fns, names, args, kwargs); cols is
\* [given |-> FALSE] for None, else the selector or list of selectors
Across_init(cls, data, cols, fns, names, args, kwargs) ==
    LET cs  == IF ~cols.given THEN everything(data) ELSE cols.items
        sel == select_columns(data.columns, cs)
    IN  IF fns.form = "other"
        THEN [NoAcross EXCEPT !.raised = "invalid_fns", !.cls = cls, !.given = fns]
        ELSE [NoAcross EXCEPT !.made = TRUE, !.cls = cls, !.given = fns,
                              !.data = data, !.cols = sel, !.fns = fns_list(fns),
                              !.names = names, !.args = args,
                              !.kwargs = kwargs]

\* a CAcross constructor without the check for more than one function
CAcross_init_unchecked(data, cols, fns, names, args, kwargs) ==
    LET self == Across_init("CAcross", data, cols, fns, names, args, kwargs)
    IN  IF ~self.made THEN self
        ELSE IF self.fns = <<>>
        THEN [NoAcross EXCEPT !.raised = "no_function", !.cls = "CAcross",
                              !.given = fns]
        ELSE self

\* CAcross.__init__: exactly one function
CAcross_init(data, cols, fns, names, args, kwargs) ==
    LET self == Across_init("CAcross", data, cols, fns, names, args, kwargs)
    IN  IF ~self.made THEN self
        ELSE IF self.fns = <<>>
        THEN [NoAcross EXCEPT !.raised = "no_function", !.cls = "CAcross",
                              !.given = fns]
        ELSE IF Len(self.fns) > 1
        THEN [NoAcross EXCEPT !.raised = "too_many_functions",
                              !.cls = "CAcross", !.given = fns]
        ELSE self

\* IfCross.__init__ (IfAny, IfAll): exactly one function
IfCross_init(cls, data, cols, fns, names, args, kwargs) ==
    LET self == Across_init(cls, data, cols, fns, names, args, kwargs)
    IN  IF ~self.made THEN self
        ELSE IF self.fns = <<>>
        THEN [NoAcross EXCEPT !.raised = "no_function", !.cls = cls,
                              !.given = fns]
        ELSE IF Len(self.fns) > 1
        THEN [NoAcross EXCEPT !.raised = "too_many_functions", !.cls = cls,
                              !.given = fns]
        ELSE self

(***************************************************************************)
(* Across.evaluate                                                         *)
(***************************************************************************)
NoOut == [items |-> <<>>, ctx |-> "", kind |-> "none"]
Raised(ctx) == [items |-> <<>>, ctx |-> ctx, kind |-> "raise"]

\* utils.to_df(value, name): a frame with the one column
to_df(value, name) == <<[val |-> value, name |-> name]>>

\* utils.df_assign_item(df, name, value): df[name] = value, which replaces a
\* column of that name where it stands and appends a new one
df_assign_item(df, name, value) ==
    IF \E i \in DOMAIN df : df[i].name = name
    THEN [i \in DOMAIN df |-> IF df[i].name = name
                              THEN [val |-> value, name |-> name] ELSE df[i]]
    ELSE Append(df, [val |-> value, name |-> name])

\* fn called on the k-th column of self.cols in selection context
SelectCall(self, data, k) ==
    LET col == self.cols[k]
        fn  == self.fns[1].fn
    IN  IF functype(fn) = "plain"
        THEN FnApply(fn, StrVal(col), self.args, self.kwargs)
        ELSE FnApply(fn, StrVal(col), replace_args(self.args, col),
                     replace_kwargs(self.kwargs, col))

\* a selection branch that hands the column's values to the function
Across_evaluate_select_values(self, data) ==
    IF self.fns = <<>>
    THEN [items |-> [k \in DOMAIN self.cols |->
                        [val |-> StrVal(self.cols[k]), name |-> <<>>]],
          ctx |-> "select", kind |-> "list"]
    ELSE LET vals == [k \in DOMAIN self.cols |->
                        FnApply(self.fns[1].fn,
                                SeriesVal(Column(data, self.cols[k])),
                                self.args, self.kwargs)]
         IN  IF \E k \in DOMAIN vals : vals[k] = ErrVal
             THEN Raised("select")
             ELSE [items |-> [k \in DOMAIN vals |->
                                 [val |-> vals[k], name |-> <<>>]],
                   ctx |-> "select", kind |-> "list"]

\* Across.evaluate, context.name == 'select'
Across_evaluate_select(self, data) ==
    IF self.fns = <<>>
    THEN [items |-> [k \in DOMAIN self.cols |->
                        [val |-> StrVal(self.cols[k]), name |-> <<>>]],
          ctx |-> "select", kind |-> "list"]
    ELSE LET vals == [k \in DOMAIN self.cols |-> SelectCall(self, data, k)]
         IN  IF \E k \in DOMAIN vals : vals[k] = ErrVal
             THEN Raised("select")
             ELSE [items |-> [k \in DOMAIN vals |->
                                 [val |-> vals[k], name |-> <<>>]],
                   ctx |-> "select", kind |-> "list"]

\* one pass of the inner loop of Across.evaluate: the name and the value for
\* column number ci and function record number fi
ValueStep(self, data, ci, fi) ==
    LET column      == self.cols[ci]
        fn_info     == self.fns[fi]
        render_data == fn_info.render \o <<[v |-> column, k |-> "_col"]>>
        name_format == IF self.names # <<>> THEN self.names
                       ELSE IF KwHas(render_data, "_fn")
                       THEN <<Ph("_col"), Lit(<<"_">>), Ph("_fn")>>
                       ELSE <<Ph("_col")>>
        name        == format(name_format, render_data)
        value       == FnApply(fn_info.fn, SeriesVal(Column(data, column)),
                               replace_args(self.args, column),
                               replace_kwargs(self.kwargs, column))
    IN  [val |-> value, name |-> name.name, ok |-> name.ok /\ value # ErrVal]

\* the two loops, column by column and function by function inside;
\* k counts the passes made, ret is the frame so far (none: <<>>)
RECURSIVE ValueLoop(_, _, _, _)
ValueLoop(self, data, k, ret) ==
    LET nf == Len(self.fns)
    IN  IF k >= Len(self.cols) * nf THEN [ok |-> TRUE, ret |-> ret]
        ELSE LET st == ValueStep(self, data, (k \div nf) + 1, (k % nf) + 1)
             IN  IF ~st.ok THEN [ok |-> FALSE, ret |-> <<>>]
                 ELSE ValueLoop(self, data, k + 1,
                                IF ret = <<>> THEN to_df(st.val, st.name)
                                ELSE df_assign_item(ret, st.name, st.val))

\* Across.evaluate: the descriptor after the call and what it returned
Across_evaluate(self, data, context) ==
    IF context = "select"
    THEN [self |-> self, out |-> Across_evaluate_select(self, data)]
    ELSE LET self1 == IF self.fns = <<>>
                      THEN [self EXCEPT !.fns = <<[fn |-> "ident", render |-> <<>>]>>]
                      ELSE self
             r     == ValueLoop(self1, data, 0, <<>>)
         IN  [self |-> self1,
              out |-> IF r.ok
                      THEN [items |-> r.ret, ctx |-> context, kind |-> "frame"]
                      ELSE Raised(context)]

\* a naming template read as plain text: "{_fn}.{_col}"
RECURSIVE literal(_)
literal(template) ==
    IF template = <<>> THEN <<>>
    ELSE (IF template[1].ph THEN <<"{">> \o template[1].s \o <<"}">>
          ELSE template[1].s) \o literal(Tail(template))

\* a CAcross.evaluate that never looks at the kind of table
CAcross_evaluate_always_base(self, data, context) ==
    Across_evaluate(self, data, context).out

\* CAcross.evaluate: a table that is not row-wise goes to Across.evaluate; a
\* row-wise one gets the function applied to every row's selected columns,
\* the results (one number per row) making the one column that names, read
\* as a plain name, calls
CAcross_evaluate(self, data, context) ==
    IF ~IsRowwise(data) THEN Across_evaluate(self, data, context).out
    ELSE LET row(r) == [j \in DOMAIN self.cols |-> Column(data, self.cols[j])[r]]
             vals   == [r \in DOMAIN data.rows |->
                          FnApply(self.fns[1].fn, SeriesVal(row(r)),
                                  self.args, self.kwargs)]
             name   == IF self.names = <<>> THEN <<"0">> ELSE literal(self.names)
         IN  IF \E r \in DOMAIN vals : vals[r].t # "scalar" THEN Raised(context)
             ELSE [items |-> <<[val |-> SeriesVal([r \in DOMAIN vals |->
                                                     vals[r].v[1]]),
                                name |-> name]>>,
                   ctx |-> context, kind |-> "frame"]

\* an IfCross.evaluate that reduces with any() whatever the class
IfCross_evaluate_any(self, data, context) ==
    LET cell(r, j) == FnApply(self.fns[1].fn,
                              ScalarVal(Column(data, self.cols[j])[r]),
                              self.args, self.kwargs)
        ok(c)    == c.t \in {"bool", "nan"} \/ (c.t = "scalar" /\ c.v[1] \in {0, 1})
        truth(c) == c.t \in {"bool", "scalar"} /\ c.v[1] = 1
        agg(r)   == \E j \in DOMAIN self.cols : truth(cell(r, j))
    IN  IF \E r \in DOMAIN data.rows, j \in DOMAIN self.cols : ~ok(cell(r, j))
        THEN Raised(context)
        ELSE [items |-> <<[val |-> [s |-> <<>>, v |-> [r \in DOMAIN data.rows |->
                                                         IF agg(r) THEN 1 ELSE 0],
                                    t |-> "bools"],
                           name |-> <<>>]>>,
              ctx |-> context, kind |-> "bools"]

\* IfCross.evaluate (IfAny, IfAll): per row, the function on each selected
\* value, no result made False, the rest cast to boolean (which refuses
\* numbers other than 0 and 1), then any() or all(); one 0/1 per row
IfCross_evaluate(self, data, context) ==
    LET cell(r, j) == FnApply(self.fns[1].fn,
                              ScalarVal(Column(data, self.cols[j])[r]),
                              self.args, self.kwargs)
        ok(c)    == c.t \in {"bool", "nan"} \/ (c.t = "scalar" /\ c.v[1] \in {0, 1})
        truth(c) == c.t \in {"bool", "scalar"} /\ c.v[1] = 1
        agg(r)   == IF self.cls = "IfAny"
                    THEN \E j \in DOMAIN self.cols : truth(cell(r, j))
                    ELSE \A j \in DOMAIN self.cols : truth(cell(r, j))
    IN  IF \E r \in DOMAIN data.rows, j \in DOMAIN self.cols : ~ok(cell(r, j))
        THEN Raised(context)
        ELSE [items |-> <<[val |-> [s |-> <<>>, v |-> [r \in DOMAIN data.rows |->
                                                         IF agg(r) THEN 1 ELSE 0],
                                    t |-> "bools"],
                           name |-> <<>>]>>,
              ctx |-> context, kind |-> "bools"]

\* the arguments the descriptors are built with
AcrClasses == {"Across", "CAcross", "IfAny", "IfAll"}

AcrCols ==
    { [items |-> <<>>, given |-> FALSE],
      [items |-> <<StrAtom(<<"y">>)>>, given |-> TRUE],
      [items |-> <<StrAtom(<<"x">>), StrAtom(<<"y">>)>>, given |-> TRUE],
      [items |-> <<StrAtom(<<"y">>), IntAtom(0)>>, given |-> TRUE] }

F(fn) == [key |-> <<>>, fn |-> fn]
NF(key, fn) == [key |-> key, fn |-> fn]

AcrFnsArgs ==
    { [form |-> "none", fs |-> <<>>],
      [form |-> "other", fs |-> <<>>],
      [form |-> "list", fs |-> <<>>],
      [form |-> "dict", fs |-> <<>>] }
    \cup { [form |-> "callable", fs |-> <<F(f)>>] : f \in AcrFns }
    \cup { [form |-> "list", fs |-> <<F(f)>>] : f \in {"sum", "upper"} }
    \cup { [form |-> "list", fs |-> <<F(f), F(g)>>] :
            f \in {"sum", "ident"}, g \in {"ident", "upper"} }
    \cup { [form |-> "dict", fs |-> <<NF(<<"s">>, "sum")>>],
           [form |-> "dict", fs |-> <<NF(<<"s">>, "sum"), NF(<<"i">>, "ident")>>] }

\* names: None, or the template "{_fn}.{_col}"
AcrNames == { <<>>, <<Ph("_fn"), Lit(<<".">>), Ph("_col")>> }

InitAcr ==
    /\ acr = NoAcross
    /\ acr_out = NoOut

\* Across(...), CAcross(...), IfAny(...), IfAll(...)
AcrConstruct(cls, data, cols, fns, names, args, kwargs) ==
    /\ acr' = CASE cls = "Across"  ->
                     Across_init(cls, data, cols, fns, names, args, kwargs)
                [] cls = "CAcross" ->
                     CAcross_init(data, cols, fns, names, args, kwargs)
                [] OTHER ->
                     IfCross_init(cls, data, cols, fns, names, args, kwargs)
    /\ acr_out' = NoOut
    /\ UNCHANGED notAcr

\* acr.evaluate(data, context) of a plain Across
AcrEvaluate(context) ==
    /\ acr.made
    /\ acr.cls = "Across"
    /\ LET r == Across_evaluate(acr, AcrData, context)
       IN  /\ acr' = r.self
           /\ acr_out' = r.out
    /\ UNCHANGED notAcr

\* acr.evaluate(context=context) of a CAcross: the table is the one it was
\* made with
AcrEvaluateC(context) ==
    /\ acr.made
    /\ acr.cls = "CAcross"
    /\ acr' = acr
    /\ acr_out' = CAcross_evaluate(acr, acr.data, context)
    /\ UNCHANGED notAcr

\* acr.evaluate(context=context) of an IfAny or IfAll
AcrEvaluateIf(context) ==
    /\ acr.made
    /\ acr.cls \in {"IfAny", "IfAll"}
    /\ acr' = acr
    /\ acr_out' = IfCross_evaluate(acr, acr.data, context)
    /\ UNCHANGED notAcr

NextAcr ==
    \/ \E cls \in AcrClasses, cols \in AcrCols, fns \in AcrFnsArgs,
          names \in AcrNames :
            AcrConstruct(cls, AcrData, cols, fns, names, <<>>, <<>>)
    \/ \E cols \in AcrCols, f \in {"sum", "upper"}, names \in AcrNames :
            AcrConstruct("CAcross", AcrRowwise, cols,
                         [form |-> "callable", fs |-> <<F(f)>>], names, <<>>, <<>>)
    \/ \E ctx \in {"select", "eval"} : AcrEvaluateC(ctx)
    \/ \E cls \in {"IfAny", "IfAll"}, f \in {"gt0", "gt0na"},
          cols \in { [items |-> <<>>, given |-> FALSE],
                     [items |-> <<StrAtom(<<"b">>)>>, given |-> TRUE],
                     [items |-> <<IntAtom(1), StrAtom(<<"a">>)>>, given |-> TRUE] } :
            AcrConstruct(cls, IfData, cols,
                         [form |-> "callable", fs |-> <<F(f)>>], <<>>, <<>>, <<>>)
    \/ \E ctx \in {"select", "eval"} : AcrEvaluateIf(ctx)
    \/ \E cols \in AcrCols, f \in AcrArgFns, a \in {CurColumn, StrVal(<<"z">>)} :
            AcrConstruct("Across", AcrData, cols, [form |-> "callable", fs |-> <<F(f)>>], <<>>,
                         IF f = "kwk" THEN <<>> ELSE <<a>>,
                         IF f = "kwk" THEN <<[v |-> a, k |-> "k"]>> ELSE <<>>)
    \/ \E ctx \in {"select", "eval"} : AcrEvaluate(ctx)

(***************************************************************************)
(* Claims about the Across family                                          *)
(***************************************************************************)
\* how many functions the fns argument holds
GivenCount(fns) == IF fns.form = "callable" THEN 1 ELSE Len(fns.fs)

\* C8: constructing CAcross, IfAny or IfAll fails with the no-function error
\* when zero functions are given (None, an empty list or dict), with the
\* too-many-functions error when more than one is given, and succeeds only
\* with exactly one function.
C8_ExactlyOneFunction ==
    (acr.cls \in {"CAcross", "IfAny", "IfAll"} /\ acr.given.form # "other") =>
        /\ GivenCount(acr.given) = 0 => (~acr.made /\ acr.raised = "no_function")
        /\ GivenCount(acr.given) > 1 =>
              (~acr.made /\ acr.raised = "too_many_functions")
        /\ GivenCount(acr.given) = 1 => (acr.made /\ acr.raised = "")

\* CAcross(fns=[sum, ident]) was refused for having two functions
C8_Witness ==
    /\ acr.cls = "CAcross"
    /\ acr.given.form = "list"
    /\ Len(acr.given.fs) = 2
    /\ ~acr.made
    /\ acr.raised = "too_many_functions"

\* C9: in selection context Across.evaluate returns the resolved column list
\* when no function was given, and with exactly one function the list of
\* that function applied to each column name (not to the column's values),
\* in column order: str.upper gives the upper-cased names, and sum, which
\* adds up a column's values but cannot add up a name, raises.
C9_SelectContext ==
    (acr.made /\ acr.cls = "Across" /\ acr_out.ctx = "select") =>
        /\ GivenCount(acr.given) = 0 =>
              /\ acr_out.kind = "list"
              /\ acr_out.items = [k \in DOMAIN acr.cols |->
                                    [val |-> StrVal(acr.cols[k]), name |-> <<>>]]
        /\ (GivenCount(acr.given) = 1 /\ acr.given.fs[1].fn = "upper") =>
              /\ acr_out.kind = "list"
              /\ acr_out.items = [k \in DOMAIN acr.cols |->
                                    [val |-> StrVal(upper(acr.cols[k])),
                                     name |-> <<>>]]
        /\ (GivenCount(acr.given) = 1 /\ acr.given.fs[1].fn = "ident") =>
              /\ acr_out.kind = "list"
              /\ acr_out.items = [k \in DOMAIN acr.cols |->
                                    [val |-> StrVal(acr.cols[k]), name |-> <<>>]]
        /\ (GivenCount(acr.given) = 1 /\ acr.given.fs[1].fn = "sum") =>
              acr_out.kind = "raise"

\* Across(cols=[y, 0], fns=str.upper) evaluated in selection context gave
\* ["Y", "X"]
C9_Witness ==
    /\ acr.made
    /\ acr.cls = "Across"
    /\ acr.given.form = "callable"
    /\ acr.given.fs[1].fn = "upper"
    /\ acr.cols = << <<"y">>, <<"x">> >>
    /\ acr_out.ctx = "select"
    /\ acr_out.items = << [val |-> StrVal(<<"Y">>), name |-> <<>>],
                          [val |-> StrVal(<<"X">>), name |-> <<>>] >>

\* the names of the columns of a frame, in order
FrameNames(df) == [i \in DOMAIN df |-> df[i].name]

\* the names "{col}_{index}" for n functions, column by column, index from 0
IndexedNames(cols, n) ==
    [k \in 1..(Len(cols) * n) |->
        cols[((k - 1) \div n) + 1] \o <<"_">> \o Str((k - 1) % n)]

\* a value-context evaluate, without a naming template, that returned a frame
C10_Case ==
    /\ acr.made
    /\ acr.cls = "Across"
    /\ acr.names = <<>>
    /\ acr_out.ctx = "eval"
    /\ acr_out.kind = "frame"

\* C10 (original statement): without a naming template each output column
\* is named {col} when a single unnamed function was given and
\* {col}_{fn_index}, index from 0, when multiple functions were given.
C10_Original ==
    C10_Case =>
        /\ ( \/ acr.given.form = "callable"
             \/ (acr.given.form = "list" /\ Len(acr.given.fs) = 1) ) =>
              FrameNames(acr_out.items) = acr.cols
        /\ (acr.given.form = "list" /\ Len(acr.given.fs) > 1) =>
              FrameNames(acr_out.items) =
                  IndexedNames(acr.cols, Len(acr.given.fs))

\* C10 (amended): without a naming template each output column is named
\* {col} when the function was given as a single callable, and
\* {col}_{fn_index}, index from 0, when the functions were given as a list,
\* also a list of one function; for cols [x, y] and a list of two functions
\* the result has exactly the columns x_0, x_1, y_0, y_1.
C10_Amended ==
    C10_Case =>
        /\ acr.given.form = "callable" =>
              FrameNames(acr_out.items) = acr.cols
        /\ (acr.given.form = "list" /\ Len(acr.given.fs) >= 1) =>
              FrameNames(acr_out.items) =
                  IndexedNames(acr.cols, Len(acr.given.fs))
        /\ ( /\ acr.given.form = "list"
             /\ Len(acr.given.fs) = 2
             /\ acr.cols = << <<"x">>, <<"y">> >> ) =>
              FrameNames(acr_out.items) =
                  << <<"x","_","0">>, <<"x","_","1">>,
                     <<"y","_","0">>, <<"y","_","1">> >>

\* Across(cols=[x, y], fns=[sum, ident]) gave the columns x_0, x_1, y_0, y_1
C10_Witness ==
    /\ C10_Case
    /\ acr.given.form = "list"
    /\ Len(acr.given.fs) = 2
    /\ FrameNames(acr_out.items) =
           << <<"x","_","0">>, <<"x","_","1">>,
              <<"y","_","0">>, <<"y","_","1">> >>
    /\ acr_out.items[1].val = ScalarVal(3)

(***************************************************************************)
(* The current-column marker                                               *)
(***************************************************************************)
\* C11: whenever Across.evaluate calls a function for a column, in selection
\* and in value context and for plain and registered functions alike, a
\* current-column marker among args or kwargs reaches the function as the
\* name of the column being processed, and any other argument as it was
\* given.
C11_MarkerReplaced ==
    ( /\ acr.made
      /\ acr.cls = "Across"
      /\ acr.given.form = "callable"
      /\ acr.given.fs[1].fn \in AcrArgFns
      /\ acr_out.kind \in {"list", "frame"} )
    => \A k \in DOMAIN acr.cols :
          LET given == IF acr.args # <<>> THEN acr.args[1] ELSE acr.kwargs[1].v
          IN  acr_out.items[k].val =
                 IF given = CurColumn THEN StrVal(acr.cols[k]) ELSE given

(***************************************************************************)
(* CAcross on row-wise and other tables                                    *)
(***************************************************************************)
\* C12: CAcross.evaluate applies its one function across each row, the
\* row's selected columns as one vector and one result per row, exactly
\* when the table is row-wise (sum gives the row sums, str.upper raises);
\* on a table that is not row-wise it returns what Across.evaluate returns
\* for the same arguments (sum in value context: the column sums).
C12_RowwiseOrBase ==
    (acr.made /\ acr.cls = "CAcross" /\ acr_out.kind # "none") =>
        LET fn == acr.given.fs[1].fn
        IN  IF IsRowwise(acr.data)
            THEN /\ fn = "sum" =>
                      /\ acr_out.kind = "frame"
                      /\ Len(acr_out.items) = 1
                      /\ acr_out.items[1].val =
                            SeriesVal([r \in DOMAIN AcrData.rows |->
                               SumSeq([j \in DOMAIN acr.cols |->
                                         Column(AcrData, acr.cols[j])[r]])])
                 /\ fn = "upper" => acr_out.kind = "raise"
            ELSE /\ acr_out = Across_evaluate(acr, AcrData, acr_out.ctx).out
                 /\ (fn = "sum" /\ acr_out.ctx = "eval" /\ acr.names = <<>>
                     /\ acr.given.form = "callable") =>
                      acr_out.items =
                         [j \in DOMAIN acr.cols |->
                            [val |-> ScalarVal(SumSeq(Column(AcrData, acr.cols[j]))),
                             name |-> acr.cols[j]]]

\* CAcross(cols=[x, y], fns=sum) on the row-wise table gave the row sums
\* [4, 6]
C12_Witness ==
    /\ acr.made
    /\ acr.cls = "CAcross"
    /\ IsRowwise(acr.data)
    /\ acr.cols = << <<"x">>, <<"y">> >>
    /\ acr_out.kind = "frame"
    /\ acr_out.items[1].val = SeriesVal(<<4, 6>>)

\* CAcross(cols=[x, y], fns=sum) on the plain table gave the column sums
C12_WitnessBase ==
    /\ acr.made
    /\ acr.cls = "CAcross"
    /\ ~IsRowwise(acr.data)
    /\ acr_out.ctx = "eval"
    /\ acr_out.kind = "frame"
    /\ Len(acr_out.items) = 2
    /\ acr_out.items[1].val = ScalarVal(3)

(***************************************************************************)
(* IfAny and IfAll                                                         *)
(***************************************************************************)
\* C13: IfAny.evaluate (IfAll.evaluate) returns one boolean per row, the OR
\* (AND) over the selected columns of the function's result on the row's
\* value, a missing result counting as false; v > 0 on the rows (1, -1),
\* (-1, -1), (2, 2) gives [True, False, True] for IfAny.
C13_AnyAllPerRow ==
    ( /\ acr.made
      /\ acr.cls \in {"IfAny", "IfAll"}
      /\ acr.given.fs[1].fn \in {"gt0", "gt0na"}
      /\ acr_out.kind # "none" )
    => LET fn == acr.given.fs[1].fn
           holds(v) == v > 0 /\ ~(fn = "gt0na" /\ v = 2)
           row(r) == { Column(acr.data, acr.cols[j])[r] : j \in DOMAIN acr.cols }
           want(r) == IF acr.cls = "IfAny" THEN \E v \in row(r) : holds(v)
                      ELSE \A v \in row(r) : holds(v)
       IN  /\ acr_out.kind = "bools"
           /\ acr_out.items[1].val.v =
                 [r \in DOMAIN acr.data.rows |-> IF want(r) THEN 1 ELSE 0]
           /\ (acr.cls = "IfAny" /\ fn = "gt0" /\ Len(acr.cols) = 2) =>
                 acr_out.items[1].val.v = <<1, 0, 1>>

\* IfAll over a and b with v > 0, no result for 2, gave [False, False, False]
C13_Witness ==
    /\ acr.made
    /\ acr.cls = "IfAll"
    /\ acr.given.fs[1].fn = "gt0na"
    /\ Len(acr.cols) = 2
    /\ acr_out.kind = "bools"
    /\ acr_out.items[1].val.v = <<0, 0, 0>>

(***************************************************************************)
(* Data frames and the grouping envelope                                   *)
(***************************************************************************)
\* a frame: ordered column names, rows of one int per column, and the row
\* labels (the pandas index) that say which row of the input a row is
\* the name of a column, one character long
N(c) == <<c>>

HasCol(df, name) == \E i \in DOMAIN df.columns : df.columns[i] = name

\* a verb's result: a table, or the exception it raised
Ok(t) == [t |-> t, raised |-> "", ok |-> TRUE]
Raise(e) == [t |-> <<>>, raised |-> e, ok |-> FALSE]

\* df[name] = vals: in place for a column of that name, else appended
DfAssign(df, name, vals) ==
    IF HasCol(df, name)
    THEN [df EXCEPT !.rows =
            [r \in DOMAIN df.rows |->
                [j \in DOMAIN df.columns |->
                    IF df.columns[j] = name THEN vals[r] ELSE df.rows[r][j]]]]
    ELSE [df EXCEPT !.columns = Append(df.columns, name),
                    !.rows = [r \in DOMAIN df.rows |-> Append(df.rows[r], vals[r])]]

\* df[cols] for column names that all exist
DfSelect(df, cols) ==
    [df EXCEPT !.columns = cols,
               !.rows = [r \in DOMAIN df.rows |->
                           [j \in DOMAIN cols |-> Column(df, cols[j])[r]]]]

\* the rows of df at the given positions (1-based here), in that order
DfTake(df, pos) ==
    [df EXCEPT !.rows = [i \in DOMAIN pos |-> df.rows[pos[i]]],
               !.index = [i \in DOMAIN pos |-> df.index[pos[i]]]]

\* the positions of the rows of df whose label is in labels, in df's order
RECURSIVE PosWhere(_, _, _)
PosWhere(df, labels, r) ==
    IF r > Len(df.rows) THEN <<>>
    ELSE (IF df.index[r] \in labels THEN <<r>> ELSE <<>>)
         \o PosWhere(df, labels, r + 1)

\* utils.list_union(a, b): a, then the elements of b not in a
list_union(a, b) == a \o SelectSeq(b, LAMBDA e : e \notin ToSet(a))

\* list_diff on plain names
names_diff(a, b) == SelectSeq(a, LAMBDA e : e \notin ToSet(b))

\* the values of the key columns in row r
KeyOf(df, names, r) == [i \in DOMAIN names |-> Column(df, names[i])[r]]

\* the grouper pandas computes for df.groupby(names): one group per key
\* combination that occurs, holding the labels of its rows
ComputeGrouper(df, names) ==
    [names |-> names,
     groups |-> { [key |-> k,
                   labels |-> { df.index[r] : r \in
                                  { q \in DOMAIN df.rows : KeyOf(df, names, q) = k } }] :
                  k \in { KeyOf(df, names, r) : r \in DOMAIN df.rows } }]

\* a plain table: no keys, no groups
Plain(df) == [grouped |-> FALSE, obj |-> df,
              grouper |-> [names |-> <<>>, groups |-> {}]]

\* the second argument of group_df: a grouper object, or column names
ByGrouper(g) == [grouper |-> g, carried |-> TRUE]
ByNames(names) == [grouper |-> [names |-> names, groups |-> {}], carried |-> FALSE]

\* utils.group_df(df, grouper): a grouper object is kept as it is, names
\* are grouped afresh from df (KeyError for a name that is no column)
group_df(df, by) ==
    IF by.carried
    THEN Ok([grouped |-> TRUE, obj |-> df, grouper |-> by.grouper])
    ELSE IF by.grouper.names = <<>> THEN Raise("ValueError")
    ELSE IF \E i \in DOMAIN by.grouper.names : ~HasCol(df, by.grouper.names[i])
    THEN Raise("KeyError")
    ELSE Ok([grouped |-> TRUE, obj |-> df,
             grouper |-> ComputeGrouper(df, by.grouper.names)])

\* the groups of the envelope that have rows in the table, and the rows of
\* one of them as the frame the per-group call is given
LiveGroups(data) ==
    { g \in data.grouper.groups :
        \E r \in DOMAIN data.obj.index : data.obj.index[r] \in g.labels }

GroupFrame(data, g) == DfTake(data.obj, PosWhere(data.obj, g.labels, 1))

\* utils.groupby_apply(data, func): res[g] is what func returned for the
\* rows of group g; the results are put together in the order the rows
\* have in the input
groupby_apply(data, res) ==
    LET live == DOMAIN res
    IN  IF \E g \in live : ~res[g].ok
        THEN Raise((res[CHOOSE g \in live : ~res[g].ok]).raised)
        ELSE IF live = {} THEN Ok(data.obj)
        ELSE LET any    == res[CHOOSE g \in live : TRUE].t
                 labels == SelectSeq(data.obj.index,
                              LAMBDA l : \E g \in live : l \in ToSet(res[g].t.index))
                 rowOf(l) ==
                    LET g == CHOOSE h \in live : l \in ToSet(res[h].t.index)
                        q == CHOOSE i \in DOMAIN res[g].t.index :
                                res[g].t.index[i] = l
                    IN  res[g].t.rows[q]
             IN  Ok([columns |-> any.columns,
                     rows |-> [i \in DOMAIN labels |-> rowOf(labels[i])],
                     index |-> labels])

(***************************************************************************)
(* Expressions handed to the verbs                                         *)
(***************************************************************************)
\* None, a constant, f.c, f.c * 2, sum(f.c), and a table of n columns made
\* from f.c: DataFrame({'a': f.c}) or DataFrame({'a': f.c, 'b': f.c * 2})
\* (e names the form, c its column, n its number)
Expr(e, c, n) == [c |-> c, n |-> n, e |-> e]

\* evaluate_expr(val, data, context) followed by align_value(val, data): one
\* value per row; the columns read are the context's used_refs
EvalExpr(x, df) ==
    IF x.e = "const"
    THEN [ok |-> TRUE, vals |-> [r \in DOMAIN df.rows |-> x.n], used |-> <<>>]
    ELSE IF ~HasCol(df, x.c) THEN [ok |-> FALSE, vals |-> <<>>, used |-> <<>>]
    ELSE LET col == Column(df, x.c)
         IN  [ok |-> TRUE,
              vals |-> CASE x.e \in {"col", "frame"} -> col
                         [] x.e = "double" -> [r \in DOMAIN col |-> col[r] * 2]
                         [] x.e = "sum"    -> [r \in DOMAIN col |-> SumSeq(col)],
              used |-> <<x.c>>]

(***************************************************************************)
(* dplyr verbs on plain and grouped tables                                 *)
(***************************************************************************)
\* select_columns raises for a name that is no column and for a position
\* outside the column list
SelectOk(all_columns, cols) ==
    \A i \in DOMAIN cols :
        IF cols[i].k = "int" THEN PyIndexOk(all_columns, cols[i].i)
        ELSE cols[i].s \in ToSet(all_columns)

\* dict.update for an insertion-ordered dict kept as a list of items
RECURSIVE DictUpdate(_, _)
DictUpdate(d, items) ==
    IF items = <<>> THEN d
    ELSE LET it == Head(items)
             d1 == IF \E i \in DOMAIN d : d[i].key = it.key
                   THEN [i \in DOMAIN d |-> IF d[i].key = it.key THEN it ELSE d[i]]
                   ELSE Append(d, it)
         IN  DictUpdate(d1, Tail(items))

RECURSIVE DictUpdateAll(_, _)
DictUpdateAll(d, dicts) ==
    IF dicts = <<>> THEN d
    ELSE DictUpdateAll(DictUpdate(d, Head(dicts)), Tail(dicts))

\* the column order relocate asks for: the moved columns to the left, or
\* before/after a destination among the columns that stay
relocate_order(all_columns, columns, _before, _after) ==
    IF ~SelectOk(all_columns, columns) THEN Raise("KeyError")
    ELSE
    LET cols         == select_columns(all_columns, columns)
        rest_columns == names_diff(all_columns, cols)
        dest         == IF ~_before.isNone THEN <<_before.val>> ELSE <<_after.val>>
        at           == CHOOSE i \in DOMAIN rest_columns :
                            rest_columns[i] = select_columns(rest_columns, dest)[1]
        cutpoint     == IF ~_before.isNone THEN at - 1 ELSE at
    IN  IF ~_before.isNone /\ ~_after.isNone
        THEN Raise("ColumnNameInvalidError")
        ELSE IF _before.isNone /\ _after.isNone
        THEN Ok(cols \o rest_columns)
        ELSE IF ~SelectOk(rest_columns, dest) THEN Raise("KeyError")
        ELSE Ok(SubSeq(rest_columns, 1, cutpoint) \o cols
                \o SubSeq(rest_columns, cutpoint + 1, Len(rest_columns)))

\* the frame in the new column order, under the grouper of the input
relocate_done(_data, rearranged) ==
    IF ~rearranged.ok THEN rearranged
    ELSE IF _data.grouped
    THEN group_df(DfSelect(_data.obj, rearranged.t), ByGrouper(_data.grouper))
    ELSE Ok(Plain(DfSelect(_data.obj, rearranged.t)))

relocate(_data, columns, _before, _after) ==
    relocate_done(_data, relocate_order(_data.obj.columns, columns, _before, _after))

\* the loop of mutate over the keyword arguments: None drops the column,
\* anything else is evaluated against the frame as changed so far; a table
\* of one column is assigned under that column's name, a wider one column
\* by column as key$col
RECURSIVE MutateLoop(_, _, _)
MutateLoop(data, kwargs, used) ==
    IF kwargs = <<>> THEN [data |-> data, raised |-> "", ok |-> TRUE, used |-> used]
    ELSE LET key == Head(kwargs).key
             val == Head(kwargs).val
         IN  IF val.e = "None"
             THEN IF ~HasCol(data, key)
                  THEN [data |-> data, raised |-> "KeyError", ok |-> FALSE, used |-> used]
                  ELSE MutateLoop(DfSelect(data, SelectSeq(data.columns, LAMBDA c : c # key)),
                                  Tail(kwargs), used)
             ELSE LET v == EvalExpr(val, data)
                  IN  IF ~v.ok
                      THEN [data |-> data, raised |-> "KeyError", ok |-> FALSE, used |-> used]
                      ELSE MutateLoop(
                             IF val.e # "frame" THEN DfAssign(data, key, v.vals)
                             ELSE IF val.n = 1 THEN DfAssign(data, N("a"), v.vals)
                             ELSE DfAssign(DfAssign(data, key \o <<"$", "a">>, v.vals),
                                           key \o <<"$", "b">>,
                                           [r \in DOMAIN v.vals |-> v.vals[r] * 2]),
                             Tail(kwargs), list_union(used, v.used))

\* data[cols] of pandas: KeyError for a name that is no column
Getitem(data, cols) ==
    IF \E i \in DOMAIN cols : ~HasCol(data, cols[i]) THEN Raise("KeyError")
    ELSE Ok(Plain(DfSelect(data, cols)))

\* the end of mutate with _keep='all' taken for 'none'
mutate_keep_all_as_none(moved, used_cols, out, _keep) ==
    IF ~moved.ok THEN moved
    ELSE CASE _keep = "used"   -> Getitem(moved.t.obj, list_union(used_cols, out))
           [] _keep = "unused" ->
                Getitem(moved.t.obj,
                        list_union(names_diff(moved.t.obj.columns, used_cols), out))
           [] OTHER            -> Getitem(moved.t.obj, out)

\* the end of mutate: the new columns relocated, then the _keep policy
mutate_keep(moved, used_cols, out, _keep) ==
    IF ~moved.ok THEN moved
    ELSE CASE _keep = "used"   -> Getitem(moved.t.obj, list_union(used_cols, out))
           [] _keep = "unused" ->
                Getitem(moved.t.obj,
                        list_union(names_diff(moved.t.obj.columns, used_cols), out))
           [] _keep = "none"   -> Getitem(moved.t.obj, out)
           [] OTHER            -> moved

mutate_relocate(loop, out, _keep, _before, _after) ==
    IF ~loop.ok THEN Raise(loop.raised)
    ELSE mutate_keep(
            IF ~_before.isNone \/ ~_after.isNone
            THEN relocate(Plain(loop.data),
                          [i \in DOMAIN out |-> StrAtom(out[i])],
                          _before, _after)
            ELSE Ok(Plain(loop.data)),
            loop.used, out, _keep)

\* the keyword arguments after the positional dicts, as one ordered dict
mutate_kwargs(acrosses, kwargs) == DictUpdate(DictUpdateAll(<<>>, acrosses), kwargs)

\* list(kwargs): the keys, dropped columns among them
outcols(kwargs) == [i \in DOMAIN kwargs |-> kwargs[i].key]

\* mutate on a plain frame
mutate_DataFrame(_data, acrosses, _keep, _before, _after, kwargs) ==
    mutate_relocate(MutateLoop(_data, mutate_kwargs(acrosses, kwargs), <<>>),
                    outcols(mutate_kwargs(acrosses, kwargs)), _keep, _before, _after)

\* what a per-group call hands back to groupby_apply: the frame, or the error
Unwrap(r) == IF r.ok THEN Ok(r.t.obj) ELSE r

\* group_df on what groupby_apply returned
Regroup(ret, by) == IF ~ret.ok THEN ret ELSE group_df(ret.t, by)

\* mutate on a grouped frame done on the whole table at once
mutate_DataFrameGroupBy_whole(_data, acrosses, _keep, _before, _after, kwargs) ==
    Regroup(Unwrap(mutate_DataFrame(_data.obj, acrosses, _keep, _before, _after,
                                    kwargs)),
            ByGrouper(_data.grouper))

\* mutate on a grouped frame: per group, then the input's grouper again
mutate_DataFrameGroupBy(_data, acrosses, _keep, _before, _after, kwargs) ==
    LET apply_func(df) ==
            Unwrap(mutate_DataFrame(df, acrosses, _keep, _before, _after, kwargs))
    IN  Regroup(groupby_apply(_data, [g \in LiveGroups(_data) |->
                                        apply_func(GroupFrame(_data, g))]),
                ByGrouper(_data.grouper))

mutate(_data, acrosses, _keep, _before, _after, kwargs) ==
    IF _data.grouped
    THEN mutate_DataFrameGroupBy(_data, acrosses, _keep, _before, _after, kwargs)
    ELSE mutate_DataFrame(_data.obj, acrosses, _keep, _before, _after, kwargs)

\* select: the chosen columns, renamed new <- old where asked
select(_data, columns, renamings) ==
    LET df    == _data.obj
        wanted == columns \o [i \in DOMAIN renamings |-> StrAtom(renamings[i].val)]
    IN  IF ~SelectOk(df.columns, wanted) THEN Raise("KeyError")
        ELSE
        LET selected == select_columns(df.columns, wanted)
            new_name(c) ==
                IF \E i \in DOMAIN renamings : renamings[i].val = c
                THEN renamings[CHOOSE i \in DOMAIN renamings : renamings[i].val = c].key
                ELSE c
            picked == DfSelect(df, selected)
            data == [picked EXCEPT !.columns =
                        [j \in DOMAIN selected |-> new_name(selected[j])]]
        IN  IF _data.grouped THEN group_df(data, ByGrouper(_data.grouper))
            ELSE Ok(Plain(data))

\* the keys of group_by resolved against the (mutated) table; on a grouped
\* table _add puts them after the keys there are
group_by_columns(mutated, columns, _add, kwargs) ==
    IF ~mutated.ok THEN mutated
    ELSE
    LET data   == mutated.t
        wanted == columns \o [i \in DOMAIN kwargs |-> StrAtom(kwargs[i].key)]
        kept   == Collection([i \in DOMAIN data.grouper.names |->
                                AtomItem(StrAtom(data.grouper.names[i]))])
    IN  IF ~SelectOk(data.obj.columns, wanted) THEN Raise("KeyError")
        ELSE group_df(data.obj,
                ByNames((IF data.grouped /\ _add
                         THEN [i \in DOMAIN kept |-> kept[i].s] ELSE <<>>)
                        \o select_columns(data.obj.columns, wanted)))

\* group_by: keyword mutations first, then the selected columns become keys
group_by(_data, columns, _add, kwargs) ==
    group_by_columns(IF kwargs # <<>>
                     THEN mutate(_data, <<>>, "all", None, None, kwargs)
                     ELSE Ok(_data),
                     columns, _add, kwargs)

\* ungroup that leaves the key columns out
ungroup_without_keys(_data) ==
    Ok(Plain(DfSelect(_data.obj, names_diff(_data.obj.columns, _data.grouper.names))))

\* ungroup: the table under the envelope
ungroup(_data) == Ok(Plain(_data.obj))

\* conditions of filter: f.c > n, f.c == max(f.c)

EvalCond(x, df) ==
    IF ~HasCol(df, x.c) THEN [ok |-> FALSE, vals |-> <<>>]
    ELSE LET col == Column(df, x.c)
         IN  [ok |-> TRUE,
              vals |-> [r \in DOMAIN col |->
                          IF x.e = "gt" THEN col[r] > x.n
                          ELSE \A q \in DOMAIN col : col[q] <= col[r]]]

\* filter on a plain frame: the rows where every condition holds. A
\* condition that is an IfAny or IfAll (if_any, if_all: of all columns,
\* lambda v: v > 0) is evaluated in the body: the first as
\* condition.evaluate(_data, Context.EVAL), a later one as
\* cond.evaluate(Context.EVAL, _data), whose data is then the context marker,
\* of which data[self.cols] raises TypeError; the other conditions have
\* their values before the body runs
filter_DataFrame(_data, condition, conditions, _preserve) ==
    LET all == <<condition>> \o conditions
        ifs == { i \in DOMAIN all : all[i].e \in { "if_any", "if_all" } }
        evaluate(x) ==
            IfCross_evaluate(
                IfCross_init(IF x.e = "if_any" THEN "IfAny" ELSE "IfAll", _data,
                             [items |-> <<>>, given |-> FALSE],
                             [form |-> "callable", fs |-> <<F("gt0")>>],
                             <<>>, <<>>, <<>>),
                _data, "eval")
        ev  == [i \in DOMAIN all |->
                  IF i \notin ifs THEN EvalCond(all[i], _data)
                  ELSE IF i > 1 THEN [ok |-> FALSE, vals |-> <<>>]
                  ELSE [ok |-> evaluate(all[i]).kind = "bools",
                        vals |-> [r \in DOMAIN _data.rows |->
                                    evaluate(all[i]).items[1].val.v[r] = 1]]]
        keep == SelectSeq([r \in DOMAIN _data.rows |-> r],
                          LAMBDA r : \A i \in DOMAIN all : ev[i].vals[r])
    IN  IF \E i \in DOMAIN all \ ifs : ~ev[i].ok THEN Raise("KeyError")
        ELSE IF \E i \in ifs : ~ev[i].ok THEN Raise("TypeError")
        ELSE Ok(Plain(DfTake(_data, keep)))

\* filter on a grouped frame that keeps the grouper whatever _preserve says
filter_DataFrameGroupBy_kept(_data, condition, conditions, _preserve) ==
    LET apply_func(df) ==
            Unwrap(filter_DataFrame(df, condition, conditions, _preserve))
    IN  Regroup(groupby_apply(_data, [g \in LiveGroups(_data) |->
                                        apply_func(GroupFrame(_data, g))]),
                ByGrouper(_data.grouper))

\* filter on a grouped frame: per group; the grouper kept as it is with
\* _preserve, the names grouped afresh without
filter_DataFrameGroupBy(_data, condition, conditions, _preserve) ==
    LET apply_func(df) ==
            Unwrap(filter_DataFrame(df, condition, conditions, _preserve))
    IN  Regroup(groupby_apply(_data, [g \in LiveGroups(_data) |->
                                        apply_func(GroupFrame(_data, g))]),
                IF _preserve THEN ByGrouper(_data.grouper)
                ELSE ByNames(_data.grouper.names))

filter(_data, condition, conditions, _preserve) ==
    IF _data.grouped
    THEN filter_DataFrameGroupBy(_data, condition, conditions, _preserve)
    ELSE filter_DataFrame(_data.obj, condition, conditions, _preserve)

\* utils.expand_slice(rows, n): a list of positions is used as it is
expand_slice(rows, n) == rows

\* slice: the rows at the given positions of the whole table, grouped or not
slice(_data, rows0, _preserve) ==
    LET df   == _data.obj
        rows == expand_slice(rows0, Len(df.rows))
    IN  IF \E i \in DOMAIN rows : ~PyIndexOk(df.rows, rows[i]) THEN Raise("IndexError")
        ELSE LET ret == DfTake(df, [i \in DOMAIN rows |->
                                      IF rows[i] < 0 THEN Len(df.rows) + rows[i] + 1
                                      ELSE rows[i] + 1])
             IN  IF ~_data.grouped THEN Ok(Plain(ret))
                 ELSE IF ~_preserve THEN group_df(ret, ByNames(_data.grouper.names))
                 ELSE group_df(ret, ByGrouper(_data.grouper))

\* a value no column of the model holds: the NaN of a label with no value
NaN == 0 - 1

\* the loop of summarise: the first value makes the frame (one row for a
\* scalar, the rows of a vector), the later ones are assigned by row label
RECURSIVE SummariseLoop(_, _, _, _)
SummariseLoop(_data, kwargs, ret, first) ==
    IF kwargs = <<>> THEN Ok(Plain(ret))
    ELSE LET key == Head(kwargs).key
             val == Head(kwargs).val
             v   == EvalExpr(val, _data)
             scalar == val.e \in {"const", "sum"}
             at(l) == IF scalar THEN (IF val.e = "const" THEN val.n
                                      ELSE SumSeq(Column(_data, val.c)))
                      ELSE IF \E r \in DOMAIN _data.index : _data.index[r] = l
                      THEN v.vals[CHOOSE r \in DOMAIN _data.index : _data.index[r] = l]
                      ELSE NaN
             made == IF scalar
                     THEN [columns |-> <<key>>, rows |-> <<<<at(0)>>>>, index |-> <<0>>]
                     ELSE [columns |-> <<key>>,
                           rows |-> [r \in DOMAIN v.vals |-> <<v.vals[r]>>],
                           index |-> _data.index]
         IN  IF ~v.ok THEN Raise("KeyError")
             ELSE SummariseLoop(_data, Tail(kwargs),
                    IF first THEN made
                    ELSE DfAssign(ret, key, [r \in DOMAIN ret.rows |-> at(ret.index[r])]),
                    FALSE)

\* summarise on a plain frame
summarise_DataFrame(_data, acrosses, _groups, kwargs) ==
    SummariseLoop(_data, mutate_kwargs(acrosses, kwargs), _data, TRUE)

\* the groups in the order of their keys: key tuples compared position by
\* position
RECURSIVE SortGroups(_)
SortGroups(S) ==
    IF S = {} THEN <<>>
    ELSE LET less(a, b) == \E i \in DOMAIN a :
                                a[i] < b[i] /\ \A j \in 1..(i - 1) : a[j] = b[j]
             m == CHOOSE g \in S : \A h \in S : h = g \/ less(g.key, h.key)
         IN  <<m>> \o SortGroups(S \ {m})

RECURSIVE ConcatRows(_)
ConcatRows(frames) ==
    IF frames = <<>> THEN <<>>
    ELSE Head(frames).rows \o ConcatRows(Tail(frames))

\* utils.groupby_apply(data, func, groupdata=True): res[g] is what func
\* returned for the rows of group g; the results are put together in key
\* order, the group's key in front of its rows, the row labels numbered anew
groupby_apply_groupdata(data, res) ==
    LET names == data.grouper.names
        live  == SortGroups(DOMAIN res)
    IN  IF \E g \in DOMAIN res : ~res[g].ok
        THEN Raise((res[CHOOSE g \in DOMAIN res : ~res[g].ok]).raised)
        ELSE IF live = <<>>
        THEN Ok([columns |-> names, rows |-> <<>>, index |-> <<>>])
        ELSE LET rest == names_diff(res[live[1]].t.columns, names)
                 withKey(i) ==
                    [columns |-> names \o rest,
                     rows |-> [r \in DOMAIN res[live[i]].t.rows |->
                                 live[i].key \o
                                 [j \in DOMAIN rest |->
                                    Column(res[live[i]].t, rest[j])[r]]],
                     index |-> res[live[i]].t.index]
                 rows == ConcatRows([i \in DOMAIN live |-> withKey(i)])
             IN  Ok([columns |-> names \o rest, rows |-> rows,
                     index |-> [i \in DOMAIN rows |-> i - 1]])

\* the envelope of a grouped summarise: what the _groups policy asks for,
\* inferred from the result's group sizes when not given
summarise_groups(got, g_keys, _groups0) ==
    IF ~got.ok THEN got
    ELSE
    LET ret   == got.t
        most  == SubSeq(g_keys, 1, Len(g_keys) - 1)
        gsize == { Cardinality(g.labels) :
                     g \in ComputeGrouper(ret, g_keys).groups }
        _groups == IF ~_groups0.isNone THEN _groups0.val
                   ELSE IF gsize \subseteq {1} THEN "drop_last"
                   ELSE IF Cardinality(gsize) > 1 THEN "keep"
                   ELSE "None"
    IN  CASE _groups = "drop_last" /\ most # <<>> -> group_df(ret, ByNames(most))
          [] _groups = "keep"                     -> group_df(ret, ByNames(g_keys))
          [] OTHER                                -> Ok(Plain(ret))

\* summarise on a grouped frame: one result per group, keys in front
summarise_DataFrameGroupBy(_data, acrosses, _groups, kwargs) ==
    LET apply_func(df) ==
            Unwrap(summarise_DataFrame(
                        DfSelect(df, names_diff(df.columns, _data.grouper.names)),
                        acrosses, _groups, kwargs))
    IN  summarise_groups(groupby_apply_groupdata(_data,
                            [g \in LiveGroups(_data) |->
                                apply_func(GroupFrame(_data, g))]),
                         _data.grouper.names, _groups)

summarise(_data, acrosses, _groups, kwargs) ==
    IF _data.grouped
    THEN summarise_DataFrameGroupBy(_data, acrosses, _groups, kwargs)
    ELSE summarise_DataFrame(_data.obj, acrosses, _groups, kwargs)

\* the rows of nest_join: for row r of x the rows of y with the same key,
\* the key column left out (keep=False); with a suffix every column of the
\* match that x has too is renamed in x, in place, and in the match
RECURSIVE nest_join_rows(_, _, _, _, _, _)
nest_join_rows(x, y, on, suffix, r, y_matched) ==
    IF r > Len(x.rows) THEN [x |-> x, y_matched |-> y_matched]
    ELSE LET condition == SelectSeq([q \in DOMAIN y.rows |-> q],
                            LAMBDA q : Column(y, on)[q] = Column(x, on)[r])
             found  == DfTake(y, condition)
             df     == DfSelect(found, names_diff(found.columns, <<on>>))
             shared == { c \in ToSet(df.columns) : HasCol(x, c) }
             renamed(cols, sfx) ==
                [j \in DOMAIN cols |->
                    IF cols[j] \in shared THEN cols[j] \o sfx ELSE cols[j]]
         IN  IF suffix = <<>>
             THEN nest_join_rows(x, y, on, suffix, r + 1, Append(y_matched, df))
             ELSE nest_join_rows(
                    [x EXCEPT !.columns = renamed(x.columns, suffix[1])],
                    y, on, suffix, r + 1,
                    Append(y_matched,
                           [df EXCEPT !.columns = renamed(df.columns, suffix[2])]))

\* nest_join(x, y, by, copy, suffix) for one key name: t is the returned
\* table's part that comes from x and y_matched its nested column; x and y
\* are the caller's two tables as they are after the call (the renames land
\* on the caller's x unless copy made x a copy)
nest_join(x, y, by, copy, suffix) ==
    IF ~HasCol(x, by) \/ ~HasCol(y, by)
    THEN [t |-> <<>>, x |-> x, raised |-> "KeyError", ok |-> FALSE,
          y |-> y, y_matched |-> <<>>]
    ELSE LET done == nest_join_rows(x, y, by, suffix, 1, <<>>)
         IN  [t |-> Plain(done.x), x |-> IF copy THEN x ELSE done.x, raised |-> "",
              ok |-> TRUE,
              y |-> y, y_matched |-> done.y_matched]

(***************************************************************************)
(* arrange                                                                 *)
(***************************************************************************)
\* sort_values(by, ascending): row i goes before row j when its values in the
\* columns by[k..] come first, each column ascending or descending
RECURSIVE RowBefore(_, _, _, _, _, _)
RowBefore(df, by, desc_cols, i, j, k) ==
    IF k > Len(by) THEN FALSE
    ELSE LET c == CHOOSE p \in DOMAIN df.columns : df.columns[p] = by[k]
             a == df.rows[i][c]
             b == df.rows[j][c]
         IN  IF a = b THEN RowBefore(df, by, desc_cols, i, j, k + 1)
             ELSE IF by[k] \in desc_cols THEN a > b ELSE a < b

\* names.repair_names(names, repair="check_unique") raises NameNonUniqueError
\* unless no name occurs twice
check_unique(names) == Cardinality(ToSet(names)) = Len(names)

\* arrange checking the names before anything else
arrange_DataFrame_check_first(_data, series) ==
    IF ~check_unique(_data.columns)
    THEN Raise("ValueError")
    ELSE Ok(Plain(_data))

\* arrange of a plain table. Without sort expressions the table is returned
\* as it is; otherwise the names are checked for uniqueness
\* (repair_names(..., repair="check_unique")), the values of the series are
\* collected by name (a desc() series marks its name descending) and the
\* table is read in the sorted order of its rows, ties in their old order
arrange_DataFrame(_data, series) ==
    IF series = <<>> THEN Ok(Plain(_data))
    ELSE IF ~check_unique(_data.columns)
    THEN Raise("ValueError")
    ELSE LET desc_cols == { series[i].c : i \in { i \in DOMAIN series : series[i].e = "desc" } }
             first == SelectSeq([i \in DOMAIN series |-> i],
                                LAMBDA i : \A h \in 1..(i - 1) : series[h].c # series[i].c)
             by    == [i \in DOMAIN first |-> series[first[i]].c]
             n     == Len(_data.rows)
             rank(i) == Cardinality({ j \in 1..n :
                            \/ RowBefore(_data, by, desc_cols, j, i, 1)
                            \/ (j < i /\ ~RowBefore(_data, by, desc_cols, i, j, 1)) })
         IN  Ok(Plain(DfTake(_data, [r \in 1..n |-> CHOOSE i \in 1..n : rank(i) = r - 1])))

\* arrange of a grouped table: the table under the envelope is arranged, by
\* the key columns first with _by_group (_data.obj[col] of each key name, a
\* KeyError for a name the table has not), and grouped again by the same
\* names
arrange(_data, series, _by_group) ==
    IF ~_data.grouped THEN arrange_DataFrame(_data.obj, series)
    ELSE LET names == _data.grouper.names
             keys  == [i \in DOMAIN names |-> Expr("col", names[i], 0)]
         IN  IF _by_group /\ \E i \in DOMAIN names : ~HasCol(_data.obj, names[i])
             THEN Raise("KeyError")
             ELSE
             Regroup(Unwrap(arrange_DataFrame(_data.obj,
                                IF _by_group THEN keys \o series ELSE series)),
                     ByNames(names))

(***************************************************************************)
(* slice_head and slice_tail                                               *)
(***************************************************************************)
\* utils.get_n_from_prop(total, n, prop): the number of rows asked for, a
\* proportion <<p, q>> (p/q) rounded down, one row when nothing is given,
\* never more than total
get_n_from_prop(total, n, prop) ==
    Min(IF ~prop.isNone THEN (prop.val[1] * total) \div prop.val[2]
        ELSE IF ~n.isNone THEN n.val
        ELSE 1,
        total)

\* the grouped overloads of slice_head and slice_tail: total has one row per
\* group with the entries size, n and prop; row.size of such a row is the
\* number of its entries (the attribute size of a Series), not the entry
\* 'size'. Of the labels of one group slice_head takes [:n] and slice_tail
\* [-n:], and the labels taken are used as positions by iloc
slice_groups(_data, n, prop, verb) ==
    LET row     == <<"size", "n", "prop">>
        cut(ls, k) == IF verb = "slice_head" THEN PySlice(ls, <<>>, <<k>>)
                      ELSE PySlice(ls, <<0 - k>>, <<>>)
        groups  == SortGroups(_data.grouper.groups)
        labels(i) == SelectSeq(_data.obj.index, LAMBDA l : l \in groups[i].labels)
        taken   == [i \in DOMAIN groups |->
                      [rows |-> cut(labels(i), get_n_from_prop(Len(row), n, prop))]]
        indexes == ConcatRows(taken)
    IN  IF groups = <<>> THEN Raise("ValueError")
        ELSE IF \E i \in DOMAIN indexes : ~PyIndexOk(_data.obj.rows, indexes[i])
        THEN Raise("IndexError")
        ELSE group_df(DfTake(_data.obj, [i \in DOMAIN indexes |-> indexes[i] + 1]),
                      ByGrouper(_data.grouper))

\* slice_head: the first n rows (list(range(n))); per group the labels [:n]
slice_head(_data, n, prop) ==
    IF _data.grouped
    THEN slice_groups(_data, n, prop, "slice_head")
    ELSE Ok(Plain(DfTake(_data.obj,
                [i \in 1..get_n_from_prop(Len(_data.obj.rows), n, prop) |-> i])))

\* slice_tail: the rows -1, -2, ... -n ([-(elem+1) for elem in range(n)]);
\* per group the labels [-n:]
slice_tail(_data, n, prop) ==
    IF _data.grouped
    THEN slice_groups(_data, n, prop, "slice_tail")
    ELSE LET total == Len(_data.obj.rows)
         IN  Ok(Plain(DfTake(_data.obj,
                       [i \in 1..get_n_from_prop(total, n, prop) |-> total - i + 1])))

(***************************************************************************)
(* Two-table verbs                                                         *)
(***************************************************************************)
\* pandas.merge(x, y, left_on=, right_on=, how=, suffixes=, indicator=); on=
\* is both left_on and right_on. A key under one name on both sides is one
\* column of the result, other columns of one name on both sides get the
\* suffixes; each row of x is paired with the rows of y of equal key (rows of
\* y with those of x for how='right'), a row without partner is kept with
\* NaN on the other side where how asks for it, and for how='outer' the rows
\* are in the order of their keys
merge(x, y, left_on, right_on, how, suffixes, indicator) ==
    IF \/ \E k \in DOMAIN left_on : ~HasCol(x, left_on[k])
       \/ \E k \in DOMAIN right_on : ~HasCol(y, right_on[k])
    THEN Raise("KeyError")
    ELSE
    LET at(df, nm)  == CHOOSE p \in DOMAIN df.columns : df.columns[p] = nm
        lkey(i)     == [k \in DOMAIN left_on |-> x.rows[i][at(x, left_on[k])]]
        rkey(j)     == [k \in DOMAIN right_on |-> y.rows[j][at(y, right_on[k])]]
        same        == { k \in DOMAIN left_on : left_on[k] = right_on[k] }
        ycols       == SelectSeq(y.columns, LAMBDA c : \A k \in same : right_on[k] # c)
        overlap     == ToSet(x.columns) \cap ToSet(ycols)
        columns     == [p \in DOMAIN x.columns |->
                          IF x.columns[p] \in overlap THEN x.columns[p] \o suffixes[1]
                          ELSE x.columns[p]]
                       \o [p \in DOMAIN ycols |->
                          IF ycols[p] \in overlap THEN ycols[p] \o suffixes[2]
                          ELSE ycols[p]]
                       \o (IF indicator THEN <<N("_merge")>> ELSE <<>>)
        xs          == [i \in DOMAIN x.rows |-> i]
        ys          == [j \in DOMAIN y.rows |-> j]
        partners(i) == SelectSeq(ys, LAMBDA j : lkey(i) = rkey(j))
        owners(j)   == SelectSeq(xs, LAMBDA i : lkey(i) = rkey(j))
        fromLeft    == ConcatRows([i \in DOMAIN xs |->
                          [rows |-> IF partners(i) # <<>>
                                    THEN [a \in DOMAIN partners(i) |-> <<i, partners(i)[a]>>]
                                    ELSE IF how = "inner" THEN <<>> ELSE <<<<i, 0>>>>]])
        fromRight   == ConcatRows([j \in DOMAIN ys |->
                          [rows |-> IF owners(j) # <<>>
                                    THEN [a \in DOMAIN owners(j) |-> <<owners(j)[a], j>>]
                                    ELSE <<<<0, j>>>>]])
        rightOnly   == SelectSeq(fromRight, LAMBDA pr : pr[1] = 0)
        keyOf(pr)   == IF pr[1] # 0 THEN lkey(pr[1]) ELSE rkey(pr[2])
        less(a, b)  == \E k \in DOMAIN a : a[k] < b[k] /\ \A h \in 1..(k - 1) : a[h] = b[h]
        unsorted    == fromLeft \o rightOnly
        rank(a)     == Cardinality({ b \in DOMAIN unsorted :
                          \/ less(keyOf(unsorted[b]), keyOf(unsorted[a]))
                          \/ (b < a /\ ~less(keyOf(unsorted[a]), keyOf(unsorted[b]))) })
        pairs       == CASE how = "right" -> fromRight
                         [] how = "outer" ->
                              [r \in DOMAIN unsorted |->
                                 unsorted[CHOOSE a \in DOMAIN unsorted : rank(a) = r - 1]]
                         [] OTHER -> fromLeft
        row(pr)     == [p \in DOMAIN x.columns |->
                          IF pr[1] # 0 THEN x.rows[pr[1]][p]
                          ELSE IF \E k \in same : left_on[k] = x.columns[p]
                          THEN y.rows[pr[2]][at(y, x.columns[p])]
                          ELSE NaN]
                       \o [p \in DOMAIN ycols |->
                          IF pr[2] # 0 THEN y.rows[pr[2]][at(y, ycols[p])] ELSE NaN]
                       \o (IF ~indicator THEN <<>>
                           ELSE IF pr[1] = 0 THEN <<"right_only">>
                           ELSE IF pr[2] = 0 THEN <<"left_only">>
                           ELSE <<"both">>)
    IN  Ok([columns |-> columns, rows |-> [r \in DOMAIN pairs |-> row(pairs[r])],
            index |-> [r \in DOMAIN pairs |-> r - 1]])

\* distinct(*columns) of a plain table: the first row of every combination
\* of values of the columns (drop_duplicates(columns, ignore_index=True)),
\* and of its columns those only
distinct(_data, columns) ==
    IF \E i \in DOMAIN columns : ~HasCol(_data, columns[i]) THEN Raise("KeyError")
    ELSE LET cols  == IF columns = <<>> THEN _data.columns ELSE columns
             on(r) == [i \in DOMAIN cols |->
                         _data.rows[r][CHOOSE p \in DOMAIN _data.columns :
                                          _data.columns[p] = cols[i]]]
             uniq  == SelectSeq([r \in DOMAIN _data.rows |-> r],
                                LAMBDA r : \A h \in 1..(r - 1) : on(h) # on(r))
         IN  Ok([columns |-> cols, rows |-> [r \in DOMAIN uniq |-> on(uniq[r])],
                 index |-> [r \in DOMAIN uniq |-> r - 1]])

\* intersect, union, setdiff: a merge on the columns `on`, which are all
\* columns of _data when on is not given (None or empty), then distinct(*on);
\* setdiff keeps the rows the merge marks left_only and drops the mark
set_operation(verb, _data, data2, on0) ==
    LET on     == IF on0.isNone \/ on0.val = <<>> THEN _data.columns ELSE on0.val
        how    == IF verb = "intersect" THEN "inner" ELSE "outer"
        merged == merge(_data, data2, on, on, how, <<<<"_", "x">>, <<"_", "y">>>>,
                        verb = "setdiff")
        left   == PosWhere(merged.t,
                    { merged.t.index[r] : r \in { r \in DOMAIN merged.t.rows :
                        merged.t.rows[r][Len(merged.t.columns)] = "left_only" } }, 1)
    IN  IF ~merged.ok THEN merged
        ELSE IF verb # "setdiff"
        THEN distinct(merged.t, on)
        ELSE distinct(DfSelect(DfTake(merged.t, left),
                               SubSeq(merged.t.columns, 1, Len(merged.t.columns) - 1)),
                      on)

\* the `by` of a join: a mapping of key names of x to key names of y, a
\* list of names, or nothing
ByDict(items) == [items |-> items, form |-> "dict"]
ByList(names) == [items |-> names, form |-> "list"]
ByNone == [items |-> <<>>, form |-> "None"]

\* inner_join, left_join, right_join, full_join (how = inner, left, right,
\* outer): for a mapping the merge takes its keys as left_on and its values
\* as right_on, and without keep the columns named right_on are dropped from
\* the result; otherwise the merge is on the names given, or on the common
\* columns (on=None)
join(how, x, y, by, suffix, keep) ==
    IF by.form = "dict"
    THEN LET right_on == [i \in DOMAIN by.items |-> by.items[i].val]
             ret      == merge(x, y, [i \in DOMAIN by.items |-> by.items[i].key],
                               right_on, how, suffix, FALSE)
         IN  IF ~ret.ok \/ keep THEN ret
             ELSE IF \E i \in DOMAIN right_on : ~HasCol(ret.t, right_on[i])
             THEN Raise("KeyError")
             ELSE Ok(DfSelect(ret.t, SelectSeq(ret.t.columns,
                                        LAMBDA c : c \notin ToSet(right_on))))
    ELSE LET on == IF by.form = "list" THEN by.items
                   ELSE SelectSeq(x.columns, LAMBDA c : HasCol(y, c))
         IN  IF on = <<>> THEN Raise("MergeError")
             ELSE merge(x, y, on, on, how, suffix, FALSE)

\* semi_join and anti_join: a left merge with the indicator column, of which
\* the rows marked 'both' (semi_join), or not marked so (anti_join), are
\* kept, and of these the columns named as the columns of x
filtering_join(verb, x, y, by) ==
    LET on  == IF by.form = "list" THEN by.items
               ELSE SelectSeq(x.columns, LAMBDA c : HasCol(y, c))
        ret == merge(x, y, on, on, "left", <<<<"_", "x">>, <<"_", "y">>>>, TRUE)
        pos == SelectSeq([r \in DOMAIN ret.t.rows |-> r],
                   LAMBDA r : (ret.t.rows[r][Len(ret.t.columns)] = "both")
                                  = (verb = "semi_join"))
    IN  IF on = <<>> THEN Raise("MergeError")
        ELSE IF ~ret.ok THEN ret
        ELSE IF \E i \in DOMAIN x.columns : ~HasCol(ret.t, x.columns[i])
        THEN Raise("KeyError")
        ELSE Ok(DfSelect(DfTake(ret.t, pos), x.columns))

(***************************************************************************)
(* A chain of verbs on one table                                           *)
(***************************************************************************)
\* the table of the grouped scenarios: x = [3, 1, 2], g = [0, 0, 1]
TblInit ==
    [columns |-> <<N("x"), N("g")>>,
     rows |-> <<<<3, 0>>, <<1, 0>>, <<2, 1>>>>,
     index |-> <<0, 1, 2>>]

KV(key, val) == [val |-> val, key |-> key]

\* arguments the verbs are called with: key columns, mutations, destinations
VbKeyCols == { <<StrAtom(N("g"))>>, <<StrAtom(N("x"))>>, <<StrAtom(N("y"))>> }
VbMutateKwargs ==
    { <<KV(N("y"), Expr("double", N("x"), 0))>>,
      <<KV(N("g"), Expr("None", <<>>, 0))>>,
      <<KV(N("g"), Expr("col", N("x"), 0))>>,
      <<KV(N("x"), Expr("sum", N("x"), 0))>>,
      <<KV(N("y"), Expr("const", <<>>, 1)), KV(N("x"), Expr("None", <<>>, 0))>>,
      <<KV(N("y"), Expr("frame", N("x"), 1))>>,
      <<KV(N("y"), Expr("frame", N("x"), 2))>> }
VbDests == << <<None, None>>, <<Some(StrAtom(N("x"))), None>>,
             <<None, Some(IntAtom(0))>>,
             <<Some(StrAtom(N("x"))), Some(StrAtom(N("g")))>> >>

InitVb ==
    /\ vb_tbl = Plain(TblInit)
    /\ vb_last = [verb |-> "", kwargs |-> <<>>, before |-> vb_tbl,
                  after |-> vb_tbl, raised |-> "", cols |-> <<>>,
                  y |-> <<>>, opt |-> "", y_after |-> <<>>,
                  prev |-> [verb |-> "", kwargs |-> <<>>, before |-> vb_tbl,
                            raised |-> ""]]
    /\ vb_n = 0

\* the caller starts the chain from another table than the scenario's
VbLoad(df) ==
    /\ vb_n = 0
    /\ vb_last.verb = ""
    /\ vb_tbl # Plain(df)
    /\ vb_tbl' = Plain(df)
    /\ vb_last' = [vb_last EXCEPT !.before = Plain(df), !.after = Plain(df),
                                  !.prev.before = Plain(df)]
    /\ UNCHANGED <<vb_n>>
    /\ UNCHANGED notVb

\* the call before the one remembered
PrevCall == [verb |-> vb_last.verb, kwargs |-> vb_last.kwargs,
             before |-> vb_last.before, raised |-> vb_last.raised]

\* the verbs the chains of the model end with
VbEnds == { "slice_head", "slice_tail", "arrange" }

\* one verb call: the chain goes on with the result; it ends at its input
\* when the verb raised, the exception leaving the chain, and with the
\* result after a verb of VbEnds; the call is remembered with its keyword arguments,
\* its option (_keep, _add, _preserve) and its selected columns (for mutate
\* the columns it was asked to relocate); a one-table verb works on new
\* frames (mutate on copy_df(_data)), so the table passed in is afterwards
\* what it was before
VbCall(verb, kwargs, opt, cols, r) ==
    /\ vb_tbl' = IF r.ok THEN r.t ELSE vb_tbl
    /\ vb_last' = [verb |-> verb, kwargs |-> kwargs, before |-> vb_tbl,
                   after |-> vb_tbl, raised |-> r.raised, cols |-> cols,
                   y |-> <<>>, opt |-> opt, y_after |-> <<>>,
                   prev |-> PrevCall]
    /\ vb_n' = IF verb \in VbEnds \/ ~r.ok THEN MaxVerbs ELSE vb_n + 1
    /\ UNCHANGED notVb

VbGroupBy(columns, _add, kwargs) ==
    /\ vb_n < MaxVerbs
    /\ VbCall("group_by", kwargs, IF _add THEN "add" ELSE "", columns,
              group_by(vb_tbl, columns, _add, kwargs))

VbUngroup ==
    /\ vb_n < MaxVerbs
    /\ vb_tbl.grouped
    /\ VbCall("ungroup", <<>>, "", <<>>, ungroup(vb_tbl))

VbMutate(kwargs, _keep, dest) ==
    /\ vb_n < MaxVerbs
    /\ VbCall("mutate", kwargs, _keep,
              IF dest[1].isNone /\ dest[2].isNone THEN <<>>
              ELSE [i \in DOMAIN kwargs |-> StrAtom(kwargs[i].key)],
              mutate(vb_tbl, <<>>, _keep, dest[1], dest[2], kwargs))

VbSelect(columns, renamings) ==
    /\ vb_n < MaxVerbs
    /\ VbCall("select", <<>>, "", columns, select(vb_tbl, columns, renamings))

VbRelocate(columns, dest) ==
    /\ vb_n < MaxVerbs
    /\ VbCall("relocate", <<KV(N("_before"), dest[1]), KV(N("_after"), dest[2])>>, "",
              columns, relocate(vb_tbl, columns, dest[1], dest[2]))

VbFilter(conds, _preserve) ==
    /\ vb_n < MaxVerbs
    /\ VbCall("filter", <<>>, IF _preserve THEN "preserve" ELSE "", conds,
              filter(vb_tbl, Head(conds), Tail(conds), _preserve))

VbSummarise(kwargs, _groups) ==
    /\ vb_n < MaxVerbs
    /\ VbCall("summarise", kwargs, IF _groups.isNone THEN "" ELSE _groups.val, <<>>,
              summarise(vb_tbl, <<>>, _groups, kwargs))

VbSlice(rows, _preserve) ==
    /\ vb_n < MaxVerbs
    /\ VbCall("slice", <<>>, IF _preserve THEN "preserve" ELSE "", <<>>,
              slice(vb_tbl, rows, _preserve))

VbSliceHead(n, prop) ==
    /\ vb_n < MaxVerbs
    /\ VbCall("slice_head", <<KV(N("n"), n), KV(N("prop"), prop)>>, "", <<>>,
              slice_head(vb_tbl, n, prop))

VbSliceTail(n, prop) ==
    /\ vb_n < MaxVerbs
    /\ VbCall("slice_tail", <<KV(N("n"), n), KV(N("prop"), prop)>>, "", <<>>,
              slice_tail(vb_tbl, n, prop))

\* a table with two columns of one name
TblDup ==
    [columns |-> <<N("x"), N("x")>>, rows |-> <<<<2, 0>>, <<1, 1>>>>, index |-> <<0, 1>>]

\* arrange of the chain's table, or of another table the caller has, with
\* which the chain ends
VbArrange(data, series, _by_group) ==
    /\ vb_n < MaxVerbs
    /\ LET r == arrange(data, series, _by_group)
       IN  /\ vb_tbl' = IF r.ok THEN r.t ELSE vb_tbl
           /\ vb_last' = [verb |-> "arrange", kwargs |-> <<>>,
                          before |-> data, after |-> data,
                          raised |-> r.raised,
                          cols |-> series,
                          y |-> <<>>, opt |-> IF _by_group THEN "by_group" ELSE "",
                          y_after |-> <<>>,
                          prev |-> PrevCall]
    /\ vb_n' = MaxVerbs
    /\ UNCHANGED notVb

\* intersect, union or setdiff of the caller's table, at the start of a
\* chain, and a second table; the chain ends with the result
VbSetOperation(verb, data2, on) ==
    /\ vb_n = 0
    /\ ~vb_tbl.grouped
    /\ LET r == set_operation(verb, vb_tbl.obj, data2, on)
       IN  /\ vb_tbl' = IF r.ok THEN Plain(r.t) ELSE vb_tbl
           /\ vb_last' = [verb |-> verb, kwargs |-> <<>>,
                          before |-> vb_tbl, after |-> vb_tbl,
                          raised |-> r.raised,
                          cols |-> IF on.isNone THEN <<>> ELSE on.val,
                          y |-> data2, opt |-> IF on.isNone THEN "" ELSE "on",
                          y_after |-> data2,
                          prev |-> PrevCall]
    /\ vb_n' = MaxVerbs
    /\ UNCHANGED notVb

\* a join of the caller's table, at the start of a chain, with a second
\* table; the chain ends with the result
VbJoin(verb, y, by, keep) ==
    /\ vb_n = 0
    /\ ~vb_tbl.grouped
    /\ LET how == CASE verb = "inner_join" -> "inner" [] verb = "left_join" -> "left"
                     [] verb = "right_join" -> "right" [] OTHER -> "outer"
           r   == join(how, vb_tbl.obj, y, by, <<<<"_", "x">>, <<"_", "y">>>>, keep)
       IN  /\ vb_tbl' = IF r.ok THEN Plain(r.t) ELSE vb_tbl
           /\ vb_last' = [verb |-> verb,
                          kwargs |-> IF by.form = "dict" THEN by.items ELSE <<>>,
                          before |-> vb_tbl, after |-> vb_tbl,
                          raised |-> r.raised,
                          cols |-> IF by.form = "list" THEN by.items ELSE <<>>,
                          y |-> y, opt |-> IF keep THEN "keep" ELSE "",
                          y_after |-> y,
                          prev |-> PrevCall]
    /\ vb_n' = MaxVerbs
    /\ UNCHANGED notVb

\* semi_join or anti_join of the caller's table, at the start of a chain,
\* with a second table; the chain ends with the result
VbFilteringJoin(verb, y, by) ==
    /\ vb_n = 0
    /\ ~vb_tbl.grouped
    /\ LET r == filtering_join(verb, vb_tbl.obj, y, by)
       IN  /\ vb_tbl' = IF r.ok THEN Plain(r.t) ELSE vb_tbl
           /\ vb_last' = [verb |-> verb, kwargs |-> <<>>,
                          before |-> vb_tbl, after |-> vb_tbl,
                          raised |-> r.raised,
                          cols |-> IF by.form = "list" THEN by.items
                                   ELSE SelectSeq(vb_tbl.obj.columns,
                                                  LAMBDA c : HasCol(y, c)),
                          y |-> y, opt |-> "",
                          y_after |-> y,
                          prev |-> PrevCall]
    /\ vb_n' = MaxVerbs
    /\ UNCHANGED notVb

\* nest_join of the chain's plain table with a second table; the result has
\* a column of tables, and the chain ends with it
VbNestJoin(y, by, copy, suffix) ==
    /\ vb_n < MaxVerbs
    /\ ~vb_tbl.grouped
    /\ LET r == nest_join(vb_tbl.obj, y, by, copy, suffix)
       IN  /\ vb_tbl' = IF r.ok THEN r.t ELSE vb_tbl
           /\ vb_last' = [verb |-> "nest_join", kwargs |-> <<>>,
                          before |-> vb_tbl, after |-> Plain(r.x),
                          raised |-> r.raised,
                          cols |-> <<StrAtom(by)>>,
                          y |-> y, opt |-> IF copy THEN "copy" ELSE "", y_after |-> r.y,
                          prev |-> PrevCall]
    /\ vb_n' = MaxVerbs
    /\ UNCHANGED notVb

NextVb ==
    \/ \E pos \in { <<3, 1, 2>>, <<1, 2>> } : VbLoad(DfTake(TblInit, pos))
    \/ \E columns \in VbKeyCols, _add \in BOOLEAN,
          kwargs \in { <<>>, <<KV(N("y"), Expr("double", N("x"), 0))>> } :
            VbGroupBy(columns, _add, kwargs)
    \/ VbUngroup
    \/ \E kwargs \in VbMutateKwargs, _keep \in { "all", "used", "unused", "none" },
          d \in 1..3 :
            VbMutate(kwargs, _keep, VbDests[d])
    \/ \E columns \in { <<StrAtom(N("x"))>>, <<StrAtom(N("g")), StrAtom(N("x"))>>,
                        <<IntAtom(0 - 1)>> },
          renamings \in { <<>>, <<KV(N("k"), N("g"))>> } :
            VbSelect(columns, renamings)
    \/ \E columns \in VbKeyCols, d \in DOMAIN VbDests :
            VbRelocate(columns, VbDests[d])
    \/ \E conds \in { <<Expr("gt", N("x"), 1)>>, <<Expr("ismax", N("x"), 0)>>,
                      <<Expr("gt", N("x"), 1), Expr("ismax", N("x"), 0)>>,
                      <<Expr("gt", N("y"), 0)>>, <<Expr("if_all", <<>>, 0)>>,
                      <<Expr("if_all", <<>>, 0), Expr("gt", N("x"), 1)>>,
                      <<Expr("gt", N("x"), 1), Expr("if_all", <<>>, 0)>>,
                      <<Expr("if_any", <<>>, 0)>> },
          _preserve \in BOOLEAN :
            VbFilter(conds, _preserve)
    \/ \E kwargs \in { <<KV(N("y"), Expr("sum", N("x"), 0))>>,
                       <<KV(N("y"), Expr("col", N("x"), 0))>>,
                       <<KV(N("y"), Expr("col", N("x"), 0)),
                         KV(N("n"), Expr("const", <<>>, 1))>> },
          _groups \in { None, Some("drop"), Some("drop_last"), Some("keep") } :
            VbSummarise(kwargs, _groups)
    \/ \E rows \in { <<0>>, <<2, 0>>, <<3>> }, _preserve \in BOOLEAN :
            VbSlice(rows, _preserve)
    \/ \E a \in 1..4 :
          LET n    == <<None, Some(0), Some(2), None>>[a]
              prop == <<None, None, None, Some(<<1, 2>>)>>[a]
          IN  VbSliceHead(n, prop) \/ VbSliceTail(n, prop)
    \/ \E data \in { vb_tbl, Plain(TblDup) }, _by_group \in BOOLEAN,
          series \in { <<>>, <<Expr("col", N("x"), 0)>>, <<Expr("desc", N("x"), 0)>>,
                       <<Expr("col", N("g"), 0), Expr("desc", N("x"), 0)>> } :
            /\ \A i \in DOMAIN series : HasCol(data.obj, series[i].c)
            /\ VbArrange(data, series, _by_group)
    \/ \E verb \in { "intersect", "union", "setdiff" }, d \in 1..3,
          on \in { None, SomeList(<<N("g")>>) } :
            VbSetOperation(verb,
                << [columns |-> <<N("x"), N("g")>>,
                    rows |-> <<<<3, 0>>, <<3, 0>>, <<5, 1>>>>, index |-> <<0, 1, 2>>],
                   [columns |-> <<N("x"), N("g"), N("w")>>,
                    rows |-> <<<<3, 0, 7>>, <<3, 0, 8>>, <<2, 1, 9>>>>,
                    index |-> <<0, 1, 2>>],
                   [columns |-> <<N("g"), N("w")>>,
                    rows |-> <<<<0, 7>>, <<0, 8>>, <<2, 9>>>>, index |-> <<0, 1, 2>>] >>[d],
                on)
    \/ \E how \in { "inner_join", "left_join", "right_join", "full_join" },
          keep \in BOOLEAN,
          ycols \in { <<N("g"), N("w")>>, <<N("k"), N("w")>> }, b \in 1..4 :
            VbJoin(how,
                   [columns |-> ycols, rows |-> <<<<0, 7>>, <<0, 8>>, <<2, 9>>>>,
                    index |-> <<0, 1, 2>>],
                   << ByDict(<<KV(N("g"), N("g"))>>), ByDict(<<KV(N("g"), N("k"))>>),
                      ByList(<<N("g")>>), ByNone >>[b],
                   keep)
    \/ \E verb \in { "semi_join", "anti_join" }, d \in 1..3,
          by \in { ByList(<<N("g")>>), ByNone } :
            VbFilteringJoin(verb,
                << [columns |-> <<N("g"), N("w")>>,
                    rows |-> <<<<0, 7>>, <<0, 8>>, <<2, 9>>>>, index |-> <<0, 1, 2>>],
                   [columns |-> <<N("g"), N("w")>>,
                    rows |-> <<<<0, 7>>, <<2, 9>>>>, index |-> <<0, 1>>],
                   [columns |-> <<N("g"), N("x")>>,
                    rows |-> <<<<0, 7>>, <<2, 9>>>>, index |-> <<0, 1>>] >>[d],
                by)
    \/ \E ycols \in { <<N("g"), N("x")>>, <<N("g"), N("w")>> },
          by \in { N("g"), N("z") }, copy \in BOOLEAN,
          suffix \in { <<>>, << <<"_", "x">>, <<"_", "y">> >> } :
            VbNestJoin([columns |-> ycols, rows |-> <<<<0, 7>>, <<0, 8>>, <<2, 9>>>>,
                        index |-> <<0, 1, 2>>],
                       by, copy, suffix)

(***************************************************************************)
(* Registration and the environment                                        *)
(***************************************************************************)
\* C30: the ast-fallback policy of a verb is read from the environment once,
\* when the verb is registered: no later step changes the policy of a
\* registered verb, a call of the verb is under the policy it was registered
\* with whatever the environment has become, and neither the lookup nor the
\* registration changes the environment
C30_ReadAtRegistration ==
    [][ /\ \A v \in DOMAIN reg_policy :
              v \in DOMAIN reg_policy' /\ reg_policy'[v] = reg_policy[v]
        /\ (reg_call'.called /\ reg_call' # reg_call) =>
              reg_call'.result = reg_policy[reg_call'.verb]
        /\ (fb_call'.called \/ reg_policy' # reg_policy) => environ' = environ ]_vars

\* a verb called after the environment has changed since its registration
C30_Witness ==
    /\ reg_call.called
    /\ reg_call.result = reg_policy[reg_call.verb]
    /\ get_verb_ast_fallback(reg_call.verb) # reg_call.result

(***************************************************************************)
(* The descriptor after evaluate                                           *)
(***************************************************************************)
\* C27: evaluating an Across descriptor does not change it: after an
\* evaluate call its cols, fns, names, args and kwargs are what they were
\* before the call, so after any sequence of calls what they were at
\* construction, and a descriptor built without functions still has none
C27_EvaluateKeeps ==
    [][(acr.made /\ acr_out' # NoOut) => acr' = acr]_vars

\* what of C27 holds: evaluate in selection context leaves the descriptor as
\* it is, and so does evaluate of a descriptor that has functions
C27_KeepsWithFunctions ==
    [][(acr.made /\ acr_out' # NoOut /\ (acr_out'.ctx = "select" \/ acr.fns # <<>>))
          => acr' = acr]_vars

(***************************************************************************)
(* The grouping envelope over a chain of verbs                             *)
(***************************************************************************)
\* the keys a mutate call reassigns or drops
MutatedKeys(call) ==
    { n \in ToSet(call.before.grouper.names) :
        \E i \in DOMAIN call.kwargs : call.kwargs[i].key = n }

\* C4: after any sequence of verbs on a grouped table every grouping key of
\* the result's envelope is a column of the result's table, and after a
\* mutate of a grouped table that reassigns or drops a grouping column the
\* envelope is the one computed from the new table, not the input's
C4_EnvelopeValid ==
    vb_tbl.grouped =>
        /\ \A i \in DOMAIN vb_tbl.grouper.names :
                HasCol(vb_tbl.obj, vb_tbl.grouper.names[i])
        /\ ( /\ vb_last.verb = "mutate"
             /\ vb_last.raised = ""
             /\ vb_last.before.grouped
             /\ MutatedKeys(vb_last) # {} )
           => vb_tbl.grouper = ComputeGrouper(vb_tbl.obj, vb_tbl.grouper.names)

(***************************************************************************)
(* mutate and its _keep policies                                           *)
(***************************************************************************)
\* the column names a mutate call assigns, in declaration order: the key of
\* a plain value, the columns of a table value, nothing for None
RECURSIVE Introduced(_)
Introduced(kwargs) ==
    IF kwargs = <<>> THEN <<>>
    ELSE LET key == Head(kwargs).key
             val == Head(kwargs).val
         IN  (CASE val.e = "None" -> <<>>
                [] val.e = "frame" /\ val.n = 1 -> <<N("a")>>
                [] val.e = "frame" /\ val.n = 2 ->
                      <<key \o <<"$", "a">>, key \o <<"$", "b">>>>
                [] OTHER -> <<key>>)
             \o Introduced(Tail(kwargs))

\* a mutate call whose arguments are well formed for its input: no
\* relocation asked, every column read and every column dropped is there
WellFormedMutate(call) ==
    /\ call.verb = "mutate"
    /\ call.cols = <<>>
    /\ \A i \in DOMAIN call.kwargs :
          LET key == call.kwargs[i].key
              val == call.kwargs[i].val
          IN  CASE val.e = "None"  -> HasCol(call.before.obj, key)
                [] val.e = "const" -> TRUE
                [] OTHER           -> HasCol(call.before.obj, val.c)

\* C14: mutate with _keep='none' returns, for every input table and every
\* set of new-column arguments (values of None and table-valued results
\* among them), a table whose columns are exactly the newly introduced
\* names in declaration order
C14_KeepNone ==
    (WellFormedMutate(vb_last) /\ vb_last.opt = "none") =>
        /\ vb_last.raised = ""
        /\ vb_tbl.obj.columns = Introduced(vb_last.kwargs)

\* the original columns a mutate call does not name
Untouched(call) ==
    { c \in ToSet(call.before.obj.columns) :
        /\ \A i \in DOMAIN call.kwargs : call.kwargs[i].key # c
        /\ c \notin ToSet(Introduced(call.kwargs)) }

\* C15: mutate with _keep='all' returns a table that contains every
\* original column not named by a new expression, with the same values in
\* the same row order, and the same number of rows as the input
C15_KeepAll ==
    (vb_last.verb = "mutate" /\ vb_last.opt = "all" /\ vb_last.raised = "") =>
        /\ Len(vb_tbl.obj.rows) = Len(vb_last.before.obj.rows)
        /\ vb_tbl.obj.index = vb_last.before.obj.index
        /\ \A c \in Untouched(vb_last) :
              /\ HasCol(vb_tbl.obj, c)
              /\ Column(vb_tbl.obj, c) = Column(vb_last.before.obj, c)

\* a grouped table whose rows are not in label order got x reassigned and
\* kept g
C15_Witness ==
    /\ vb_last.verb = "mutate" /\ vb_last.opt = "all" /\ vb_last.raised = ""
    /\ vb_last.before.grouped
    /\ vb_last.before.obj.index = <<2, 0, 1>>
    /\ Untouched(vb_last) = {N("g")}
    /\ HasCol(vb_tbl.obj, N("x"))
    /\ Column(vb_tbl.obj, N("x")) # Column(vb_last.before.obj, N("x"))

(***************************************************************************)
(* mutate on a grouped table                                               *)
(***************************************************************************)
\* the value the expression x has in row r of the grouped table data when it
\* is evaluated on the rows of r's group alone
PerGroupValue(x, data, r) ==
    LET g    == CHOOSE h \in data.grouper.groups : data.obj.index[r] \in h.labels
        mine == SelectSeq([q \in DOMAIN data.obj.rows |-> q],
                          LAMBDA q : data.obj.index[q] \in g.labels)
        col  == Column(data.obj, x.c)
    IN  CASE x.e = "const"  -> x.n
          [] x.e = "col"    -> col[r]
          [] x.e = "double" -> col[r] * 2
          [] x.e = "sum"    -> SumSeq([i \in DOMAIN mine |-> col[mine[i]]])

\* C17: mutate on a grouped table evaluates the expressions independently
\* per group and reassembles the rows in the original row order, with the
\* envelope's grouping keys equal to the input's
C17_GroupedMutate ==
    ( /\ vb_last.verb = "mutate"
      /\ vb_last.before.grouped
      /\ vb_last.raised = "" ) =>
        /\ vb_tbl.grouped
        /\ vb_tbl.grouper.names = vb_last.before.grouper.names
        /\ vb_tbl.obj.index = vb_last.before.obj.index
        /\ LET first == vb_last.kwargs[1]
           IN  first.val.e \in {"const", "col", "double", "sum"} =>
                 \A r \in DOMAIN vb_tbl.obj.rows :
                    Column(vb_tbl.obj, first.key)[r]
                        = PerGroupValue(first.val, vb_last.before, r)

\* the scenario: {x: [3, 1, 2], g: [0, 0, 1]} grouped by g with y = x * 2
\* gives y = [6, 2, 4] under the key g
C17_Witness ==
    /\ vb_last.verb = "mutate" /\ vb_last.raised = ""
    /\ vb_last.before.grouped
    /\ vb_last.before.obj = TblInit
    /\ vb_last.before.grouper.names = <<N("g")>>
    /\ vb_last.kwargs = <<KV(N("y"), Expr("double", N("x"), 0))>>
    /\ Column(vb_tbl.obj, N("y")) = <<6, 2, 4>>
    /\ vb_tbl.grouper.names = <<N("g")>>

\* a per-group sum put back in the order of the input's rows
C17_WitnessSum ==
    /\ vb_last.verb = "mutate" /\ vb_last.raised = "" /\ vb_last.opt = "all"
    /\ vb_last.before.grouped
    /\ vb_last.before.obj.index = <<2, 0, 1>>
    /\ vb_last.before.grouper.names = <<N("g")>>
    /\ vb_last.kwargs = <<KV(N("x"), Expr("sum", N("x"), 0))>>
    /\ Column(vb_tbl.obj, N("x")) = <<2, 4, 4>>

(***************************************************************************)
(* filter on a grouped table                                               *)
(***************************************************************************)
\* the groups of a table's envelope that have no row in the table
EmptyGroups(t) == t.grouper.groups \ LiveGroups(t)

\* C18: filter on a grouped table with _preserve=False returns an envelope
\* in which every group key combination has at least one row; with
\* _preserve=True the envelope keeps the input's groups, empty ones included
C18_FilterGroups ==
    ( /\ vb_last.verb = "filter"
      /\ vb_last.before.grouped
      /\ vb_last.raised = "" ) =>
        /\ vb_tbl.grouped
        /\ vb_last.opt = "" => EmptyGroups(vb_tbl) = {}
        /\ vb_last.opt = "preserve" =>
                vb_tbl.grouper.groups = vb_last.before.grouper.groups

\* a filter without _preserve took every row of a group, and the group is
\* gone from the envelope
C18_Witness ==
    /\ vb_last.verb = "filter" /\ vb_last.raised = "" /\ vb_last.opt = ""
    /\ vb_last.before.grouped
    /\ EmptyGroups(vb_last.before) = {}
    /\ Cardinality(vb_tbl.grouper.groups)
          < Cardinality(vb_last.before.grouper.groups)

\* the same filter with _preserve left the emptied group in the envelope
C18_WitnessPreserve ==
    /\ vb_last.verb = "filter" /\ vb_last.raised = "" /\ vb_last.opt = "preserve"
    /\ vb_last.before.grouped
    /\ EmptyGroups(vb_last.before) = {}
    /\ EmptyGroups(vb_tbl) # {}

(***************************************************************************)
(* group_by and ungroup                                                    *)
(***************************************************************************)
\* C19: for every table and every valid list of grouping columns given as
\* selectors only, group_by(cols) followed by ungroup() returns a table
\* equal to the input: same columns in the same order, same values, same
\* row order
C19_GroupUngroup ==
    ( /\ vb_last.verb = "ungroup"
      /\ vb_last.prev.verb = "group_by"
      /\ vb_last.prev.raised = ""
      /\ vb_last.prev.kwargs = <<>> ) =>
        /\ vb_last.raised = ""
        /\ ~vb_tbl.grouped
        /\ vb_tbl.obj = vb_last.prev.before.obj

\* the table with the row labels 2, 0, 1 was grouped and ungrouped
C19_Witness ==
    /\ vb_last.verb = "ungroup"
    /\ vb_last.prev.verb = "group_by"
    /\ vb_last.prev.raised = ""
    /\ vb_last.prev.kwargs = <<>>
    /\ vb_last.prev.before.obj.index = <<2, 0, 1>>
    /\ vb_tbl = Plain(vb_last.prev.before.obj)

\* the columns a group_by call selects: its selectors, then the keys of its
\* keyword arguments
Selected(call) ==
    [i \in DOMAIN call.cols |-> call.cols[i].s]
    \o [i \in DOMAIN call.kwargs |-> call.kwargs[i].key]

\* C20: group_by on an already grouped table yields, with _add=False, an
\* envelope whose keys are exactly the newly selected columns, and with
\* _add=True the existing keys followed by the newly selected columns as a
\* union: a column that is already a grouping key is not listed twice
C20_GroupByAgain ==
    ( /\ vb_last.verb = "group_by"
      /\ vb_last.before.grouped
      /\ vb_last.raised = "" ) =>
        /\ vb_tbl.grouped
        /\ vb_last.opt = "" => vb_tbl.grouper.names = Selected(vb_last)
        /\ vb_last.opt = "add" =>
                vb_tbl.grouper.names
                    = list_union(vb_last.before.grouper.names, Selected(vb_last))

(***************************************************************************)
(* The envelope summarise infers                                           *)
(***************************************************************************)
\* the row counts of the groups of a grouped summarise's result
SummarisedSizes ==
    { Cardinality(g.labels) :
        g \in ComputeGrouper(vb_tbl.obj, vb_last.before.grouper.names).groups }

\* a summarise call on a grouped table with _groups not given has returned
InferringSummarise ==
    /\ vb_last.verb = "summarise"
    /\ vb_last.raised = ""
    /\ vb_last.opt = ""
    /\ vb_last.before.grouped

\* C21: summarise on a grouped table with _groups not given infers the
\* envelope of its result from the per-group row counts: exactly one row in
\* every group gives a result grouped by all keys but the last (ungrouped
\* for a single key); the same count greater than one in all groups, or
\* differing counts, give a result that keeps all grouping keys
C21_InferredGroups ==
    InferringSummarise =>
        LET g_keys == vb_last.before.grouper.names
            most   == SubSeq(g_keys, 1, Len(g_keys) - 1)
        IN  IF SummarisedSizes \subseteq {1}
            THEN IF most = <<>> THEN ~vb_tbl.grouped
                 ELSE vb_tbl.grouped /\ vb_tbl.grouper.names = most
            ELSE vb_tbl.grouped /\ vb_tbl.grouper.names = g_keys

\* the two cases of C21 the code agrees with: one row per group, and
\* differing counts
C21_OneRowOrDiffering ==
    (InferringSummarise /\ (SummarisedSizes \subseteq {1} \/ Cardinality(SummarisedSizes) > 1)) =>
        LET g_keys == vb_last.before.grouper.names
            most   == SubSeq(g_keys, 1, Len(g_keys) - 1)
        IN  IF SummarisedSizes \subseteq {1}
            THEN IF most = <<>> THEN ~vb_tbl.grouped
                 ELSE vb_tbl.grouped /\ vb_tbl.grouper.names = most
            ELSE vb_tbl.grouped /\ vb_tbl.grouper.names = g_keys

(***************************************************************************)
(* arrange and duplicate column names                                      *)
(***************************************************************************)
\* an arrange call on a plain table whose column names are not unique (the
\* overload for grouped tables arranges the table under the envelope and
\* groups the result again, which can fail on its own)
ArrangedDup ==
    /\ vb_last.verb = "arrange"
    /\ ~vb_last.before.grouped
    /\ ~check_unique(vb_last.before.obj.columns)

Relocating ==
    /\ vb_last.verb = "relocate"
    /\ SelectOk(vb_last.before.obj.columns, vb_last.cols)
    /\ \A i \in 1..2 :
          ~vb_last.kwargs[i].val.isNone =>
              SelectOk(vb_last.before.obj.columns, <<vb_last.kwargs[i].val.val>>)

\* the result of the relocate call has exactly the columns of its input,
\* each once
RelocatePermutes ==
    /\ vb_last.raised = ""
    /\ Len(vb_tbl.obj.columns) = Len(vb_last.before.obj.columns)
    /\ ToSet(vb_tbl.obj.columns) = ToSet(vb_last.before.obj.columns)

\* C23: relocate fails with the conflicting-directive error whenever both
\* _before and _after are given; otherwise it returns a table with exactly
\* the columns of its input, in some order, the moved columns at the far
\* left when neither directive is given
C23_Relocate ==
    Relocating =>
        LET _before == vb_last.kwargs[1].val
            _after  == vb_last.kwargs[2].val
            moved   == select_columns(vb_last.before.obj.columns, vb_last.cols)
        IN  IF ~_before.isNone /\ ~_after.isNone
            THEN vb_last.raised = "ColumnNameInvalidError"
            ELSE /\ RelocatePermutes
                 /\ (_before.isNone /\ _after.isNone) =>
                        SubSeq(vb_tbl.obj.columns, 1, Len(moved)) = moved

\* what of C23 holds: the conflict of the two directives, the far left
\* without a directive, and the permutation when the destination is a column
\* that stays where it is
C23_DestinationStays ==
    Relocating =>
        LET _before == vb_last.kwargs[1].val
            _after  == vb_last.kwargs[2].val
            moved   == select_columns(vb_last.before.obj.columns, vb_last.cols)
            rest    == names_diff(vb_last.before.obj.columns, moved)
            dest    == IF ~_before.isNone THEN _before.val ELSE _after.val
        IN  IF ~_before.isNone /\ ~_after.isNone
            THEN vb_last.raised = "ColumnNameInvalidError"
            ELSE IF _before.isNone /\ _after.isNone
            THEN RelocatePermutes /\ SubSeq(vb_tbl.obj.columns, 1, Len(moved)) = moved
            ELSE SelectOk(rest, <<dest>>) => RelocatePermutes

(***************************************************************************)
(* slice_head and slice_tail on a grouped table                            *)
(***************************************************************************)
\* a slice_head or slice_tail call on a grouped table
SlicingGroups ==
    /\ vb_last.verb \in { "slice_head", "slice_tail" }
    /\ vb_last.before.grouped

\* the call returned, from each group of size s, the first (slice_head) or
\* last (slice_tail) min(k, s) rows, k being n, or floor(prop * s), or 1
SlicedAsStated ==
    /\ vb_last.raised = ""
    /\ \A g \in vb_last.before.grouper.groups :
          LET n    == vb_last.kwargs[1].val
              prop == vb_last.kwargs[2].val
              rows == SelectSeq(vb_last.before.obj.index, LAMBDA l : l \in g.labels)
              s    == Len(rows)
              k    == IF ~prop.isNone THEN (prop.val[1] * s) \div prop.val[2]
                      ELSE IF ~n.isNone THEN n.val ELSE 1
              m    == Min(k, s)
          IN  SelectSeq(vb_tbl.obj.index, LAMBDA l : l \in g.labels)
                = IF vb_last.verb = "slice_head" THEN SubSeq(rows, 1, m)
                  ELSE SubSeq(rows, s - m + 1, s)

\* C24: slice_head and slice_tail on a grouped table return from each group
\* of size s exactly min(k, s) rows, the first respectively the last rows of
\* the group, where k is n or floor(prop * s): no row when k is 0, all rows
\* of the group when k > s
C24_SliceGroups ==
    SlicingGroups => SlicedAsStated

\* what of C24 holds: a number of rows n of at least 1, on a table whose row
\* labels are the row positions
C24_CountedRows ==
    ( /\ SlicingGroups
      /\ vb_last.kwargs[2].val.isNone
      /\ ~vb_last.kwargs[1].val.isNone => vb_last.kwargs[1].val.val >= 1
      /\ vb_last.before.obj.index = [i \in DOMAIN vb_last.before.obj.rows |-> i - 1] )
        => SlicedAsStated

(***************************************************************************)
(* Set operations                                                          *)
(***************************************************************************)
\* the values of a row of table df in the columns cols
RowOn(df, cols, r) == [i \in DOMAIN cols |-> Column(df, cols[i])[r]]

\* a set operation called without `on`
SetOperated ==
    /\ vb_last.verb \in { "intersect", "union", "setdiff" }
    /\ vb_last.opt = ""

\* the call compared the rows of the two tables on their common columns: the
\* result has those columns, its rows are on them what the operation asks
\* for of the rows of the two tables, and no two of them are equal on them
SetOperatedOnCommon ==
    LET x      == vb_last.before.obj
        y      == vb_last.y
        common == SelectSeq(x.columns, LAMBDA c : HasCol(y, c))
        xs     == { RowOn(x, common, r) : r \in DOMAIN x.rows }
        ys     == { RowOn(y, common, r) : r \in DOMAIN y.rows }
    IN  /\ vb_last.raised = ""
        /\ \A i \in DOMAIN common : HasCol(vb_tbl.obj, common[i])
        /\ { RowOn(vb_tbl.obj, common, r) : r \in DOMAIN vb_tbl.obj.rows }
             = CASE vb_last.verb = "intersect" -> xs \cap ys
                 [] vb_last.verb = "union"     -> xs \cup ys
                 [] OTHER                      -> xs \ ys
        /\ \A r1, r2 \in DOMAIN vb_tbl.obj.rows :
              RowOn(vb_tbl.obj, common, r1) = RowOn(vb_tbl.obj, common, r2) => r1 = r2

\* C25: intersect, union and setdiff called without `on` compare rows only
\* on the columns common to both tables, and their result has no two rows
\* that are equal on those columns
C25_SetOperations ==
    SetOperated => SetOperatedOnCommon

\* what of C25 holds: the same when every column of the first table is a
\* column of the second
C25_ColumnsOfFirst ==
    ( /\ SetOperated
      /\ \A i \in DOMAIN vb_last.before.obj.columns :
            HasCol(vb_last.y, vb_last.before.obj.columns[i]) )
        => SetOperatedOnCommon

(***************************************************************************)
(* Joins by a mapping of key names                                         *)
(***************************************************************************)
\* a join called with a mapping whose keys are columns of x and whose values
\* are columns of y
JoinedByMapping ==
    /\ vb_last.verb \in { "inner_join", "left_join", "right_join", "full_join" }
    /\ vb_last.kwargs # <<>>
    /\ \A i \in DOMAIN vb_last.kwargs :
          /\ HasCol(vb_last.before.obj, vb_last.kwargs[i].key)
          /\ HasCol(vb_last.y, vb_last.kwargs[i].val)

\* the key columns of y the result of the join has to be without (keep =
\* False) or has to have (keep = True)
RightKeysAsStated ==
    \A i \in DOMAIN vb_last.kwargs :
        LET left_on == { vb_last.kwargs[h].key : h \in DOMAIN vb_last.kwargs }
            rk      == vb_last.kwargs[i].val
        IN  IF vb_last.opt = "keep" THEN HasCol(vb_tbl.obj, rk)
            ELSE rk \notin left_on => ~HasCol(vb_tbl.obj, rk)

\* C26: the result of inner_join, left_join, right_join and full_join with a
\* mapping as `by` always has the key columns of the left table; with
\* keep=False it is without the key columns of the right table, with
\* keep=True it has them: for every mapping, also one that maps a key name
\* to the same name
C26_JoinByMapping ==
    JoinedByMapping =>
        /\ vb_last.raised = ""
        /\ \A i \in DOMAIN vb_last.kwargs : HasCol(vb_tbl.obj, vb_last.kwargs[i].key)
        /\ RightKeysAsStated

\* what of C26 holds: the same for a mapping between different names, and
\* for any mapping with keep=True
C26_OtherNames ==
    ( /\ JoinedByMapping
      /\ \/ vb_last.opt = "keep"
         \/ \A i \in DOMAIN vb_last.kwargs : vb_last.kwargs[i].key # vb_last.kwargs[i].val )
        => ( /\ vb_last.raised = ""
             /\ \A i \in DOMAIN vb_last.kwargs :
                   HasCol(vb_tbl.obj, vb_last.kwargs[i].key)
             /\ RightKeysAsStated )

(***************************************************************************)
(* semi_join and anti_join                                                 *)
(***************************************************************************)
\* a semi_join or anti_join call whose key columns are columns of both tables
FilteringJoined ==
    /\ vb_last.verb \in { "semi_join", "anti_join" }
    /\ vb_last.cols # <<>>
    /\ \A i \in DOMAIN vb_last.cols :
          HasCol(vb_last.before.obj, vb_last.cols[i]) /\ HasCol(vb_last.y, vb_last.cols[i])

\* the result of the call has the columns of x and is made of the rows of x
\* with a match in y (semi_join), or without one (anti_join), each once
RowsOfXOnce ==
    LET x  == vb_last.before.obj
        y  == vb_last.y
        matched(r) == \E q \in DOMAIN y.rows :
                         RowOn(x, vb_last.cols, r) = RowOn(y, vb_last.cols, q)
        rs == SelectSeq([r \in DOMAIN x.rows |-> r],
                        LAMBDA r : matched(r) = (vb_last.verb = "semi_join"))
    IN  /\ vb_last.raised = ""
        /\ vb_tbl.obj.columns = x.columns
        /\ vb_tbl.obj.rows = [i \in DOMAIN rs |-> x.rows[rs[i]]]

\* C29: semi_join and anti_join partition the rows of x: every row of x is
\* exactly once in exactly one of the two results, also when y has several
\* rows that match it, and both results have exactly the columns of x
C29_FilteringJoins ==
    FilteringJoined => RowsOfXOnce

\* what of C29 holds: the same when no row of x has more than one match in y
\* and the two tables share no column but the keys
C29_OneMatch ==
    ( /\ FilteringJoined
      /\ \A q1, q2 \in DOMAIN vb_last.y.rows :
            RowOn(vb_last.y, vb_last.cols, q1) = RowOn(vb_last.y, vb_last.cols, q2)
                => q1 = q2
      /\ \A i \in DOMAIN vb_last.y.columns :
            HasCol(vb_last.before.obj, vb_last.y.columns[i])
                => vb_last.y.columns[i] \in ToSet(vb_last.cols) )
        => RowsOfXOnce

(***************************************************************************)
(* filter and the order of its conditions                                  *)
(***************************************************************************)
\* condition x holds for row r of table df
CondHolds(x, df, r) ==
    CASE x.e = "gt"     -> Column(df, x.c)[r] > x.n
      [] x.e = "ismax"  -> \A q \in DOMAIN df.rows : Column(df, x.c)[q] <= Column(df, x.c)[r]
      [] x.e = "if_any" -> \E j \in DOMAIN df.columns : df.rows[r][j] > 0
      [] OTHER          -> \A j \in DOMAIN df.columns : df.rows[r][j] > 0

\* a filter call whose conditions name columns of the table
Filtering ==
    /\ vb_last.verb = "filter"
    /\ \A i \in DOMAIN vb_last.cols :
          vb_last.cols[i].e \in { "gt", "ismax" } => HasCol(vb_last.before.obj, vb_last.cols[i].c)

\* the call returned exactly the rows for which all conditions hold, each
\* condition evaluated against the table (of a grouped table: against the
\* rows of the row's group)
FilteredAll ==
    LET data   == vb_last.before
        frames == IF data.grouped
                  THEN { GroupFrame(data, g) : g \in LiveGroups(data) }
                  ELSE { data.obj }
    IN  /\ vb_last.raised = ""
        /\ ToSet(vb_tbl.obj.index)
             = { l \in ToSet(data.obj.index) :
                   \E df \in frames : \E r \in DOMAIN df.rows :
                       /\ df.index[r] = l
                       /\ \A i \in DOMAIN vb_last.cols :
                             CondHolds(vb_last.cols[i], df, r) }

\* C28: filter keeps exactly the rows for which all conditions hold,
\* whatever the order of the conditions: an IfAny or IfAll given as the
\* second or a later condition is evaluated against the same table and
\* gives the same rows as when it is the first condition
C28_FilterAnyOrder ==
    Filtering => FilteredAll

\* what of C28 holds: the same when no IfAny or IfAll comes after the first
\* condition
C28_IfCrossFirst ==
    ( /\ Filtering
      /\ \A i \in DOMAIN vb_last.cols :
            vb_last.cols[i].e \in { "if_any", "if_all" } => i = 1 )
        => FilteredAll

(***************************************************************************)
(* The caller's tables                                                     *)
(***************************************************************************)
\* C16: no verb call changes the table(s) the caller passed in: after the
\* call the first table, and the second table of a two-table verb, have the
\* columns, column names and values they had before
C16_InputsUnchanged ==
    vb_last.verb # "" =>
        /\ vb_last.after = vb_last.before
        /\ vb_last.y_after = vb_last.y

Init ==
    /\ InitEnv
    /\ InitPipe
    /\ InitColl
    /\ InitInv
    /\ InitAcr
    /\ InitVb

SpecEnv == Init /\ [][NextEnv]_vars

SpecPipe == Init /\ [][NextPipe]_vars

SpecColl == Init /\ [][NextColl]_vars

SpecInv == Init /\ [][NextInv]_vars

SpecAcr == Init /\ [][NextAcr]_vars

SpecVb == Init /\ [][NextVb]_vars

====
